---- MODULE Spec2Model ----
(***************************************************************************)
(* easyAgents: the orchestration engine (core/agent_manager.py), the       *)
(* normalisation of capability results (core/agent.py), the capability     *)
(* registry (core/plugin_manager.py) and the pause snapshot persistence    *)
(* (api/database.py, api/server.py), the MCP client and the capabilities    *)
(* derived from it (core/mcp_client.py, core/agents/mcp_agent.py), and the *)
(* streaming endpoints of the API server (api/server.py).                  *)
(*                                                                         *)
(* The streaming entry points are Python generators: every action of the   *)
(* streaming loop is one pull of the consumer, i.e. the code that runs     *)
(* from one yield to the next.                                             *)
(***************************************************************************)
EXTENDS Integers, Sequences, FiniteSets, TLC

\* ------------------------------------------------------------------ bounds
\* successful turns of one run (initial or resumed)
MaxTurns == 2
\* content chunks of one oracle stream
MaxChunks == 1
\* resumed runs of one session
MaxResumes == 1
\* files in the plugin directory
MaxFiles == 2
\* files in the plugin directory when a reload is requested
MaxReloadFiles == 1
\* tool calls of one protocol-derived capability
MaxCalls == 2
\* providers configured behind one composite capability
MaxProviders == 2
\* HTTP requests the API server receives
MaxRequests == 2
\* entries of one trace of a conversation context
MaxEntries == 4
\* ConversationContext objects created by one ContextManager
MaxContexts == 3

\* ------------------------------------------------------- program constants
\* AgentManager.max_trys
DefaultMaxTrys == 3

\* Python's None
None == "<None>"

start_agent_name == "entrance_agent"
TerminalSentinel == "none"
PauseSentinel == "wait_for_user_input"
GeneralAgentName == "general_agent"

\* ---------------------------------------------------------------- registry
\* pluginManager after construction: the built-ins, a file-discovered
\* capability with a prompt template (plugin_agent), the shipped sql_agent
\* (no prompt template, get_prompt needs an argument), and a
\* protocol-derived capability whose health check failed (mcp_agent).
Registry ==
  [ entrance_agent |-> [is_active |-> FALSE, prompt_ok |-> TRUE],
    general_agent  |-> [is_active |-> TRUE,  prompt_ok |-> TRUE],
    demand_agent   |-> [is_active |-> TRUE,  prompt_ok |-> TRUE],
    plugin_agent   |-> [is_active |-> TRUE,  prompt_ok |-> TRUE],
    sql_agent      |-> [is_active |-> TRUE,  prompt_ok |-> FALSE],
    mcp_agent      |-> [is_active |-> FALSE, prompt_ok |-> FALSE] ]

RegisteredNames == DOMAIN Registry

\* a name no capability is registered under
UnregisteredName == "ghost_agent"

\* the values an oracle can put in next_agent
NextAgentValues ==
  RegisteredNames \cup {UnregisteredName, TerminalSentinel, PauseSentinel}

\* pluginManager.__getitem__ : TRUE when the lookup raises KeyError
LookupRaises(name) == name \notin RegisteredNames

\* ------------------------------------------------------ values and Message
\* A Python value returned by run(): tag is its type, sv its printed scalar
\* value, items the entries <<key, type of value, printed value>> of a mapping.
NoneData == [tag |-> "None", sv |-> "", items |-> {}]
DictData(items) == [tag |-> "dict", sv |-> "", items |-> items]
ScalarData(tag, sv) == [tag |-> tag, sv |-> sv, items |-> {}]

\* "is not None" in place of truthiness
TruthyNotNone(d) == d.tag # "None"

\* Python truthiness of a data value
Truthy(d) ==
  CASE d.tag = "None" -> FALSE
    [] d.tag = "dict" -> d.items # {}
    [] d.tag = "list" -> d.sv # "[]"
    [] d.tag = "str"  -> d.sv # ""
    [] d.tag = "int"  -> d.sv # "0"
    [] d.tag = "float" -> d.sv # "0.0"
    [] d.tag = "bool" -> d.sv = "True"
    [] OTHER -> TRUE

Message(status, task_list, data, next_agent, reason, message) ==
  [status |-> status, task_list |-> task_list, data |-> data,
   next_agent |-> next_agent, agent_selection_reason |-> reason,
   message |-> message]

\* "no Message" (res = None in the loop)
NoMessage == Message("", <<>>, NoneData, "", "", None)

\* what run() returns: a Message, or any other value
MessageResult(m) == [is_message |-> TRUE, msg |-> m, val |-> NoneData]
ValueResult(d) == [is_message |-> FALSE, msg |-> NoMessage, val |-> d]

\* the types json.dumps can encode
JsonTags == {"None", "str", "int", "float", "bool", "list", "dict"}

\* json.dumps(query_data) raises TypeError on any other type
JsonDumpsRaises(d) ==
  d.tag \notin JsonTags \/ \E kv \in d.items : kv[2] \notin JsonTags

\* ------------------------------------------------------------ core/agent.py
\* a variant that tests the values of a mapping only: any() over no values
\* is taken as content
normalize_agent_output_has_content_only(result, input_message, agent_name) ==
  IF result.is_message THEN result.msg
  ELSE
    LET v == result.val
        has_content == \E kv \in v.items : kv[2] # "None"
        is_complex == v.items # {} /\ has_content
        data ==
          CASE v.tag = "dict" -> v
            [] v.tag = "None" -> NoneData
            [] OTHER -> DictData({<<"result", v.tag, v.sv>>})
        message_str ==
          CASE v.tag = "dict" -> agent_name \o ":done"
            [] v.tag = "None" -> agent_name \o ":no data"
            [] OTHER -> agent_name \o ":returned:" \o v.sv
        next_agent ==
          CASE v.tag = "dict" ->
                 IF v.items = {} \/ has_content THEN GeneralAgentName
                 ELSE TerminalSentinel
            [] v.tag = "None" -> TerminalSentinel
            [] OTHER ->
                 IF v.tag \in {"str", "int", "float", "bool"}
                 THEN TerminalSentinel ELSE GeneralAgentName
        task_list ==
          IF input_message.task_list # <<>> THEN input_message.task_list
          ELSE IF Truthy(data)
               THEN <<agent_name \o ":run task", "handle result">>
               ELSE <<agent_name \o ":run task">>
    IN Message("success", task_list, data, next_agent,
               "by:" \o agent_name, message_str)

\* a variant whose primitive types are str and int only
normalize_agent_output_str_int_only(result, input_message, agent_name) ==
  IF result.is_message THEN result.msg
  ELSE
    LET v == result.val
        has_content == \E kv \in v.items : kv[2] # "None"
        is_complex == v.items # {} /\ has_content
        data ==
          CASE v.tag = "dict" -> v
            [] v.tag = "None" -> NoneData
            [] OTHER -> DictData({<<"result", v.tag, v.sv>>})
        message_str ==
          CASE v.tag = "dict" -> agent_name \o ":done"
            [] v.tag = "None" -> agent_name \o ":no data"
            [] OTHER -> agent_name \o ":returned:" \o v.sv
        next_agent ==
          CASE v.tag = "dict" ->
                 IF is_complex THEN GeneralAgentName ELSE TerminalSentinel
            [] v.tag = "None" -> TerminalSentinel
            [] OTHER ->
                 IF v.tag \in {"str", "int"}
                 THEN TerminalSentinel ELSE GeneralAgentName
        task_list ==
          IF input_message.task_list # <<>> THEN input_message.task_list
          ELSE IF Truthy(data)
               THEN <<agent_name \o ":run task", "handle result">>
               ELSE <<agent_name \o ":run task">>
    IN Message("success", task_list, data, next_agent,
               "by:" \o agent_name, message_str)

\* a variant that continues with the fallback capability for every
\* non-empty mapping, whatever its values
normalize_agent_output_by_length(result, input_message, agent_name) ==
  IF result.is_message THEN result.msg
  ELSE
    LET v == result.val
        data ==
          CASE v.tag = "dict" -> v
            [] v.tag = "None" -> NoneData
            [] OTHER -> DictData({<<"result", v.tag, v.sv>>})
        message_str ==
          CASE v.tag = "dict" -> agent_name \o ":done"
            [] v.tag = "None" -> agent_name \o ":no data"
            [] OTHER -> agent_name \o ":returned:" \o v.sv
        next_agent ==
          CASE v.tag = "dict" ->
                 IF v.items # {} THEN GeneralAgentName ELSE TerminalSentinel
            [] v.tag = "None" -> TerminalSentinel
            [] OTHER ->
                 IF v.tag \in {"str", "int", "float", "bool"}
                 THEN TerminalSentinel ELSE GeneralAgentName
        task_list ==
          IF input_message.task_list # <<>> THEN input_message.task_list
          ELSE IF Truthy(data)
               THEN <<agent_name \o ":run task", "handle result">>
               ELSE <<agent_name \o ":run task">>
    IN Message("success", task_list, data, next_agent,
               "by:" \o agent_name, message_str)

\* normalize_agent_output (core/agent.py 18-94)
normalize_agent_output(result, input_message, agent_name) ==
  IF result.is_message THEN result.msg
  ELSE
    LET v == result.val
        has_content == \E kv \in v.items : kv[2] # "None"
        is_complex == v.items # {} /\ has_content
        data ==
          CASE v.tag = "dict" -> v
            [] v.tag = "None" -> NoneData
            [] OTHER -> DictData({<<"result", v.tag, v.sv>>})
        message_str ==
          CASE v.tag = "dict" -> agent_name \o ":done"
            [] v.tag = "None" -> agent_name \o ":no data"
            [] OTHER -> agent_name \o ":returned:" \o v.sv
        next_agent ==
          CASE v.tag = "dict" ->
                 IF is_complex THEN GeneralAgentName ELSE TerminalSentinel
            [] v.tag = "None" -> TerminalSentinel
            [] OTHER ->
                 IF v.tag \in {"str", "int", "float", "bool"}
                 THEN TerminalSentinel ELSE GeneralAgentName
        task_list ==
          IF input_message.task_list # <<>> THEN input_message.task_list
          ELSE IF Truthy(data)
               THEN <<agent_name \o ":run task", "handle result">>
               ELSE <<agent_name \o ":run task">>
    IN Message("success", task_list, data, next_agent,
               "by:" \o agent_name, message_str)

\* ------------------------------------------------------------ capabilities
\* a general capability that hands the oracle's Message on as it is
GeneralAgentCallPassThrough(message) == message

\* GeneralAgent.__call__ overrides Agent.__call__: no run, no normalisation
GeneralAgentCall(message) ==
  IF message.next_agent \notin {TerminalSentinel, PauseSentinel}
  THEN [message EXCEPT !.next_agent = TerminalSentinel]
  ELSE message

\* EntranceAgent.run
EntranceAgentRun(message) == MessageResult(message)

HasKey(d, k) == \E kv \in d.items : kv[1] = k
TruthyKey(d, k) ==
  \E kv \in d.items : kv[1] = k /\ Truthy([tag |-> kv[2], sv |-> kv[3], items |-> {}])

\* DemandAgent.run
DemandAgentRun(message) ==
  LET d == message.data
      is_dict == d.tag = "dict" /\ d.items # {}
  IN MessageResult(
       IF is_dict /\ TruthyKey(d, "form_values")
       THEN IF TruthyKey(d, "clarified_demand")
            THEN [message EXCEPT !.next_agent = GeneralAgentName,
                                 !.message = "demand clarified"]
            ELSE [message EXCEPT !.next_agent = TerminalSentinel,
                                 !.message = "need more information"]
       ELSE IF is_dict
       THEN IF HasKey(d, "form_config")
            THEN [message EXCEPT !.next_agent = TerminalSentinel,
                                 !.message = "please fill in the form"]
            ELSE IF HasKey(d, "clarified_demand")
            THEN [message EXCEPT !.next_agent = GeneralAgentName,
                                 !.message = "demand clarified"]
            ELSE [message EXCEPT !.next_agent = TerminalSentinel,
                                 !.message = "please provide more"]
       ELSE message)

\* a mapping that json.dumps cannot encode (a datetime among the values)
UnserialisableDict == DictData({<<"rows", "datetime", "2024-01-01">>})

\* Agent.run of a file-discovered capability: what the contract allows it
\* to return (a Message, a mapping, nothing, a scalar)
PluginRunResults(message) ==
  { MessageResult(message),
    MessageResult(Message("error", <<>>, NoneData, TerminalSentinel,
                          "plugin failed", "declared error")),
    ValueResult(DictData({<<"count", "int", "1">>})),
    ValueResult(UnserialisableDict),
    ValueResult(NoneData),
    ValueResult(ScalarData("int", "4")) }

Returned(m) == [raised |-> FALSE, msg |-> m]
RunRaised == [raised |-> TRUE, msg |-> NoMessage]

\* agent(message): Agent.__call__ (run, then normalize_agent_output), or the
\* capability's own __call__; the set of possible outcomes
AgentCall(name, message) ==
  CASE name = start_agent_name ->
         {Returned(normalize_agent_output(EntranceAgentRun(message), message, name))}
    [] name = GeneralAgentName ->
         {Returned(GeneralAgentCall(message))}
    [] name = "demand_agent" ->
         {Returned(normalize_agent_output(DemandAgentRun(message), message, name))}
    [] name = "plugin_agent" ->
         {Returned(normalize_agent_output(r, message, name)) :
            r \in PluginRunResults(message)} \cup {RunRaised}
    [] OTHER -> {}

\* ------------------------------------------------------------------ oracle
\* The data an oracle Message carries (parsed JSON).  The payload is opaque
\* to every capability but demand_agent, which branches on its keys.
OracleData(agent) ==
  IF agent = "demand_agent"
  THEN { NoneData,
         DictData({<<"form_config", "dict", "{fields}">>}),
         DictData({<<"clarified_demand", "str", "buy a book">>}) }
  ELSE { DictData({<<"answer", "str", "4">>}) }

\* the text of the k-th oracle call is opaque: its rationale is a token
\* naming the call
ReasonOf(k) == "reason" \o ToString(k)

\* the Messages json.loads + Message(**json_response) can produce for call k
\* of a turn of the capability agent
OracleMessages(k, agent) ==
  { Message("success", <<"task">>, d, n, ReasonOf(k), "oracle message") :
      d \in OracleData(agent), n \in NextAgentValues }
  \cup { Message("error", <<"task">>, NoneData, TerminalSentinel, ReasonOf(k),
                 "oracle declared error") }

\* ------------------------------------------------------------------ events
Event(type, agent) ==
  [type |-> type, agent_name |-> agent, stage |-> None, recoverable |-> None,
   finish_reason |-> None, is_final_output |-> FALSE, status |-> None,
   next_agent |-> None, context |-> <<>>, agent_history |-> <<>>]

MetadataEvent(stage) == [Event("metadata", None) EXCEPT !.stage = stage]
AgentStartEvent(agent) == Event("agent_start", agent)
DeltaEvent(agent, finish) ==
  [Event("delta", agent) EXCEPT !.finish_reason = finish,
                                !.is_final_output = (agent = GeneralAgentName)]
\* the timing event _stream_llm_call yields before the message
TurnMetadataEvent(agent) == Event("metadata", agent)
AgentEndEvent(agent, m) ==
  [Event("agent_end", agent) EXCEPT !.status = m.status,
                                    !.next_agent = m.next_agent]
MessageEvent(agent, m) ==
  [Event("message", agent) EXCEPT !.status = m.status,
                                  !.next_agent = m.next_agent]
\* recoverable is "true", "false", or None when the field is absent
ErrorEvent(agent, recoverable) ==
  [Event("error", agent) EXCEPT !.recoverable = recoverable]
PauseEvent(context, thinking_steps) ==
  [Event("pause", None) EXCEPT !.context = context,
                               !.agent_history = thinking_steps]

\* ----------------------------------------------------------------- context
\* AgentManager.__user_message
user_message(query) ==
  [role |-> "user",
   content |-> [kind |-> "text", text |-> query, task_list |-> <<>>,
                data |-> NoneData],
   message |-> None]

\* AgentManager.__system_message(json.dumps({task_list, data}), res.message)
system_message(m) ==
  [role |-> "system",
   content |-> [kind |-> "json", text |-> "", task_list |-> m.task_list,
                data |-> m.data],
   message |-> m.message]

\* the thinking_steps record of a turn
ThinkingStep(agent, m) ==
  [agent_name |-> agent, reason |-> m.agent_selection_reason,
   task |-> IF m.task_list # <<>> THEN m.task_list[1] ELSE None]

\* ---------------------------------------------------------------- snapshot
\* json.dumps / json.loads of one optional string
JsonValue(x) == IF x = None THEN <<"null", "">> ELSE <<"string", x>>
\* a reader that turns null into the empty string
PyValueNullAsEmpty(j) == j[2]

PyValue(j) == IF j[1] = "null" THEN None ELSE j[2]

\* json.dumps(paused_context): every entry becomes a JSON object, the lists
\* keep their order
JsonDumps(pause_data) ==
  [context |->
     [i \in 1..Len(pause_data.context) |->
        LET e == pause_data.context[i]
        IN [role |-> JsonValue(e.role), content |-> e.content,
            message |-> JsonValue(e.message)]],
   agent_history |->
     [i \in 1..Len(pause_data.agent_history) |->
        LET h == pause_data.agent_history[i]
        IN [agent_name |-> JsonValue(h.agent_name),
            reason |-> JsonValue(h.reason), task |-> JsonValue(h.task)]]]

\* json.loads(row['paused_context'])
JsonLoads(text) ==
  [context |->
     [i \in 1..Len(text.context) |->
        LET e == text.context[i]
        IN [role |-> PyValue(e.role), content |-> e.content,
            message |-> PyValue(e.message)]],
   agent_history |->
     [i \in 1..Len(text.agent_history) |->
        LET h == text.agent_history[i]
        IN [agent_name |-> PyValue(h.agent_name),
            reason |-> PyValue(h.reason), task |-> PyValue(h.task)]]]

\* no snapshot stored (paused_context IS NULL)
NoSnapshot == [context |-> <<>>, agent_history |-> <<>>]

\* ------------------------------------------------------ the generator frame
\* The locals of _sync_call / _stream_call / _stream_call_resume, the events
\* handed to the consumer so far, and counters of what the run has done.
\* attempt_context, attempt_steps: context and thinking_steps as they were
\* when the current attempt entered its try block.
NewFrame(pc) ==
  [pc |-> pc, agent_name |-> start_agent_name, max_trys |-> DefaultMaxTrys,
   context |-> <<>>, thinking_steps |-> <<>>, res |-> NoMessage,
   processed_message |-> NoMessage, inner_error |-> None,
   first |-> FALSE, chunks |-> 0, events |-> <<>>, outcome |-> "running",
   saved |-> FALSE,
   turns |-> 0, oracle_calls |-> 0, turn_calls |-> 0, runs |-> 0,
   turn_attempts |-> 0, last_fail |-> None, turn_fails |-> {},
   last_agent |-> None,
   attempt_context |-> <<>>, attempt_steps |-> <<>>]

Emit(f, ev, pc) == [f EXCEPT !.events = Append(@, ev), !.pc = pc]

\* a terminal metadata event emitted on every exit of the loop
FinishWithEndMetadata(f) ==
  [f EXCEPT !.events = Append(@, MetadataEvent("end")), !.pc = "done",
            !.outcome = "exhausted", !.saved = TRUE]

\* the generator returns after the loop: the run is saved to the context
\* manager (_stream_call 376-402, _stream_call_resume 976-978)
Finish(f) == [f EXCEPT !.pc = "done", !.outcome = "exhausted", !.saved = TRUE]

\* an exception reaches the handler that encloses the turn: the loop's
\* "except Exception" (recoverable: True, retry), or, for the first turn
\* of a resumed run, the outer handler of _stream_call_resume
Raise(f, kind) ==
  LET g == [f EXCEPT !.last_fail = kind, !.turn_fails = @ \cup {kind}]
  IN IF f.first
     THEN Emit(g, ErrorEvent(f.agent_name, "false"), "after_fatal")
     ELSE Emit(g, ErrorEvent(f.agent_name, "true"), "after_error")

\* head of "while True": pause, end, or the agent_start of the next attempt
LoopTop(f) ==
  IF f.agent_name = PauseSentinel
  THEN Emit(f, PauseEvent(f.context, f.thinking_steps), "after_pause")
  ELSE IF f.agent_name = TerminalSentinel
  THEN Emit(f, MetadataEvent("end"), "after_end")
  ELSE LET g == [f EXCEPT !.turn_attempts = @ + 1,
                          !.attempt_context = f.context,
                          !.attempt_steps = f.thinking_steps]
       IN IF LookupRaises(f.agent_name)
          THEN Raise(g, "resolve")
          ELSE Emit(g, AgentStartEvent(f.agent_name), "after_agent_start")

\* after the recoverable error event: max_trys -= 1, break or continue
AfterError(f) ==
  LET g == [f EXCEPT !.max_trys = @ - 1]
  IN IF g.max_trys <= 0 THEN Finish(g) ELSE LoopTop(g)

\* _stream_llm_call caught the exception itself and yields an error event,
\* which the loop forwards
InnerError(f, kind, recoverable) ==
  Emit([f EXCEPT !.last_fail = kind, !.inner_error = kind,
                 !.turn_fails = @ \cup {kind}],
       ErrorEvent(f.agent_name, recoverable), "after_inner_error")

\* _conversation (422-441) up to and including the oracle call of
\* _stream_llm_call (475); raises: the call raises
BeginConversation(f, raises) ==
  IF f.agent_name # start_agent_name /\ ~Registry[f.agent_name].is_active
  THEN Emit([f EXCEPT !.last_fail = "resolve", !.inner_error = "resolve",
                      !.turn_fails = @ \cup {"resolve"}],
            ErrorEvent(None, None), "after_inner_error")
  ELSE IF ~Registry[f.agent_name].prompt_ok
  THEN Raise(f, "prompt")
  ELSE LET g == [f EXCEPT !.oracle_calls = @ + 1, !.turn_calls = @ + 1,
                          !.chunks = 0]
       IN IF raises THEN InnerError(g, "oracle", "false")
          ELSE [g EXCEPT !.pc = "in_stream"]

ChunkKinds == {"content", "finish", "raise"}

\* one iteration of "for chunk in stream_response" (485-523)
NextChunk(f, c) ==
  CASE c = "content" ->
         Emit([f EXCEPT !.chunks = @ + 1], DeltaEvent(f.agent_name, None),
              "in_stream")
    [] c = "finish" ->
         Emit(f, DeltaEvent(f.agent_name, "stop"), "after_finish")
    [] OTHER -> InnerError(f, "oracle", "false")

ParseKinds == {"garbage", "invalid", "json"}

\* extraction, Message(**json_response), agent(message) and the timing
\* event (525-574); o is the outcome of agent(message)
Extract(f, parsed, o) ==
  CASE parsed = "garbage" -> InnerError(f, "extract", None)
    [] parsed = "invalid" -> InnerError(f, "extract", "false")
    [] OTHER ->
         LET g == [f EXCEPT !.runs = @ + 1]
         IN IF o.raised THEN InnerError(g, "run", "false")
            ELSE Emit([g EXCEPT !.processed_message = o.msg],
                      TurnMetadataEvent(f.agent_name), "after_turn_metadata")

\* a buffered delta is flushed after agent_end
AfterTurnMetadataTrailingDelta(f) ==
  LET g == [f EXCEPT !.res = f.processed_message]
  IN Emit([g EXCEPT !.events = Append(@, AgentEndEvent(f.agent_name, g.res))],
          DeltaEvent(f.agent_name, None), "after_agent_end")

\* the message event of _stream_llm_call is consumed (res = Message(...)),
\* the inner generator ends, agent_end is yielded (281-315)
AfterTurnMetadata(f) ==
  LET g == [f EXCEPT !.res = f.processed_message]
  IN Emit(g, AgentEndEvent(f.agent_name, g.res), "after_agent_end")

\* after a forwarded error event: res is a synthesized error Message, the
\* for loop is left, agent_end is yielded (288-315)
AfterInnerError(f) ==
  LET g == [f EXCEPT !.res = Message("error", <<>>, NoneData,
                                     TerminalSentinel, "error",
                                     "error message")]
  IN Emit(g, AgentEndEvent(f.agent_name, g.res), "after_agent_end")

\* thinking_steps, then the message event (317-343; resume 806-819)
AfterAgentEnd(f) ==
  IF f.agent_name \in {start_agent_name, GeneralAgentName}
  THEN Emit(f, MessageEvent(f.agent_name, f.res), "after_message")
  ELSE IF f.first
  THEN IF f.thinking_steps = <<>> THEN Raise(f, "index")
       ELSE Emit([f EXCEPT !.thinking_steps[Len(f.thinking_steps)] =
                              ThinkingStep(f.agent_name, f.res)],
                 MessageEvent(f.agent_name, f.res), "after_message")
  ELSE Emit([f EXCEPT !.thinking_steps =
                         Append(@, ThinkingStep(f.agent_name, f.res))],
            MessageEvent(f.agent_name, f.res), "after_message")

\* context update and next capability (349-359; resume 828-837), then the
\* head of the loop
ContextUpdate(f) ==
  IF JsonDumpsRaises(f.res.data) THEN Raise(f, "dumps")
  ELSE LoopTop([f EXCEPT !.context = Append(@, system_message(f.res)),
                         !.agent_name = f.res.next_agent,
                         !.max_trys = IF f.first THEN @ ELSE DefaultMaxTrys,
                         !.first = FALSE,
                         !.turns = @ + 1, !.turn_calls = 0,
                         !.turn_attempts = 0, !.last_fail = None,
                         !.turn_fails = {}, !.inner_error = None,
                         !.last_agent = f.agent_name])

\* a declared error treated like an exception of the turn
AfterMessageRetryingDeclared(f) ==
  IF f.res.status # "success" THEN Raise(f, "declared") ELSE ContextUpdate(f)

\* the status check after the message event (345-347; resume 821-826)
AfterMessage(f) ==
  IF f.res.status # "success" THEN Finish(f) ELSE ContextUpdate(f)

\* _stream_call 203-228
StreamStart(f, q, history_context) ==
  Emit([f EXCEPT !.context = Append(history_context, user_message(q))],
       MetadataEvent("init"), "after_init")

\* _stream_call_resume 709-731
ResumeStart(f, data) ==
  LET steps == data.agent_history
      last_agent_name == IF steps # <<>> THEN steps[Len(steps)].agent_name
                         ELSE start_agent_name
  IN Emit([f EXCEPT !.context = data.context, !.thinking_steps = steps,
                    !.agent_name = last_agent_name],
          MetadataEvent("resume"), "after_resume_metadata")

\* _stream_call_resume 733-751: the user input is appended, the paused
\* capability is started again
ResumeFirstTurn(f, q) ==
  LET g == [f EXCEPT !.context = Append(@, user_message(q)), !.first = TRUE,
                     !.turn_attempts = 1,
                     !.attempt_context = Append(f.context, user_message(q)),
                     !.attempt_steps = f.thinking_steps]
  IN IF LookupRaises(g.agent_name) THEN Raise(g, "resolve")
     ELSE Emit(g, AgentStartEvent(g.agent_name), "after_agent_start")

\* ------------------------------------------------------------------- state
VARIABLES
  mode,           \* which entry point of AgentManager.__call__ is in flight
  frame,          \* the frame of the running call
  stub,           \* synchronous mode: what the oracle answers to the first call
  snapshot,       \* conversations.paused_context of the session (JSON)
  resume_data,    \* the snapshot a resumed run was started with
  full_messages,  \* ConversationContext.full_messages of the session
  resumes,        \* resumed runs so far
  paused,         \* the loop's context, history and last capability at the
                  \* latest pause
  norm,           \* one Agent.__call__ outside a run: its input, run()'s
                  \* result and the normalised Message
  extraction,     \* one oracle text and what the two extractions make of it
  construction,   \* pluginManager.__init__: the files still to load, the
                  \* AgentLoader's dict, and the listings produced since
  reload,         \* POST /agents/reload: the plugin directory at the time
                  \* of the request and the HTTP status of the answer
  client,         \* one MCPAgent with its MCPClient: the connections it
                  \* opened, the lines on the wire and the operations' results
  multi,          \* one MultiMCPAgent: its providers, its routing tables and
                  \* the calls it made
  server,         \* the API server: the requests in flight, the sessions'
                  \* rows and the prompt templates of the shared registry
  handoff,        \* one capability run: the Message object handed over,
                  \* before and after, and the object returned
  store           \* the ContextManager: its dict of contexts, the context
                  \* objects created so far and the last operation on it

vars == <<mode, frame, stub, snapshot, resume_data, full_messages, resumes,
          paused, norm, extraction, construction,
          reload, client, multi, server, handoff, store>>

UserQuery == "2+2"
FormInput == "form values"

NoPause == [context |-> <<>>, agent_history |-> <<>>, by |-> None]

\* no reload requested
NoReload == [directory |-> <<>>, status |-> None]

\* no MCPAgent under construction
NoClient == [transport |-> None, health_check |-> FALSE, build |-> None,
             pc |-> "idle",
             conns |-> <<>>, conn |-> 0, request_id |-> 0, stdout |-> <<>>,
             wire |-> <<>>, calls |-> 0]

\* no MultiMCPAgent under construction
NoMulti == [build |-> None, configs |-> <<>>, pc |-> "idle", next |-> 0,
            mcp_clients |-> {}, all_tools |-> {}, failed_servers |-> <<>>,
            calls |-> <<>>]

\* the API server before its first request
NoServer == [requests |-> <<>>, rows |-> <<>>, templates |-> <<>>]

\* a ContextManager nobody has used
NoStore == [conversations |-> {}, heap |-> <<>>, messages |-> <<>>,
            op |-> [name |-> None, session_id |-> None, ctx |-> 0]]

\* no capability run under observation
NoHandoff == [agent |-> None, input |-> NoMessage, object |-> NoMessage,
              result |-> NoMessage, same_object |-> FALSE, done |-> FALSE,
              tool_failed |-> FALSE, raised |-> FALSE]

\* no pluginManager under construction
NoConstruction == [files |-> <<>>, mcp |-> None, agents |-> <<>>,
                   phase |-> "idle", listings |-> <<>>]

\* no oracle text under extraction
NoExtraction == [m |-> None, form |-> None, text |-> <<>>,
                 stream_out |-> None, sync_out |-> None]

\* no Agent.__call__ outside a run
NoCall == [agent_name |-> None, input_message |-> NoMessage,
           result |-> ValueResult(NoneData), done |-> FALSE,
           output |-> NoMessage]

Init ==
  /\ mode = "idle"
  /\ frame = NewFrame("idle")
  /\ stub = [parsed |-> None, msg |-> NoMessage]
  /\ snapshot = NoSnapshot
  /\ resume_data = NoSnapshot
  /\ full_messages = <<>>
  /\ resumes = 0
  /\ paused = NoPause
  /\ norm = NoCall
  /\ extraction = NoExtraction
  /\ construction = NoConstruction
  /\ reload = NoReload
  /\ client = NoClient
  /\ multi = NoMulti
  /\ server = NoServer
  /\ handoff = NoHandoff
  /\ store = NoStore

\* the answers an oracle stub can give to a call
OracleAnswers ==
  {[parsed |-> k, msg |-> NoMessage] : k \in {"raise", "garbage", "invalid"}}
    \cup {[parsed |-> "json", msg |-> m] : m \in OracleMessages(1, start_agent_name)}

\* _sync_call (78-188).  _conversation contains yield statements, so calling
\* it returns a generator object without running its body: no exception is
\* raised inside the try, and "res.status" (line 121) raises AttributeError
\* outside of it.
SyncCallFrame(q) ==
  [NewFrame("done") EXCEPT !.context = <<user_message(q)>>,
                           !.outcome = "raised"]

SyncCall ==
  /\ mode = "idle"
  /\ mode' = "sync"
  /\ stub' \in OracleAnswers
  /\ frame' = SyncCallFrame(UserQuery)
  /\ UNCHANGED <<snapshot, resume_data, full_messages, resumes, paused, norm, extraction, construction,
                 reload, client, multi, server, handoff, store>>

\* AgentManager.__call__ with stream=True: the generator is created
StreamCall ==
  /\ mode = "idle"
  /\ mode' = "stream"
  /\ frame' = NewFrame("start")
  /\ UNCHANGED <<stub, snapshot, resume_data, full_messages, resumes, paused, norm, extraction, construction,
                 reload, client, multi, server, handoff, store>>

\* the turn bound: no new turn is started after MaxTurns successful ones
Bounded(g) == ~(g.pc = "after_agent_start" /\ g.turns >= MaxTurns)

\* add_user_message + add_assistant_message of the post-loop save
SavedMessages(g) ==
  LET users == {i \in 1..Len(g.context) : g.context[i].role = "user"}
      last_user == CHOOSE i \in users : \A j \in users : j <= i
      content == IF mode = "resume" THEN g.context[last_user].content.text
                 ELSE UserQuery
  IN << [role |-> "user", content |-> content, thinking_steps |-> <<>>],
        [role |-> "assistant", content |-> "full response",
         thinking_steps |-> g.thinking_steps] >>

\* one pull of the consumer moved the generator from frame to g
Pulled(g) ==
  /\ Bounded(g)
  /\ frame' = g
  /\ full_messages' = IF g.saved /\ ~frame.saved
                        THEN full_messages \o SavedMessages(g)
                        ELSE full_messages
  /\ paused' = IF g.pc = "after_pause"
                 THEN [context |-> g.context,
                       agent_history |-> g.thinking_steps,
                       by |-> g.last_agent]
                 ELSE paused
  /\ UNCHANGED <<mode, stub, snapshot, resume_data, resumes, norm, extraction,
                 construction, reload, client, multi, server, handoff, store>>

Running == mode \in {"stream", "resume"}

PullStart ==
  /\ mode = "stream" /\ frame.pc = "start"
  /\ Pulled(StreamStart(frame, UserQuery, <<>>))

PullResumeStart ==
  /\ mode = "resume" /\ frame.pc = "start"
  /\ Pulled(ResumeStart(frame, resume_data))

PullResumeFirstTurn ==
  /\ Running /\ frame.pc = "after_resume_metadata"
  /\ Pulled(ResumeFirstTurn(frame, FormInput))

PullLoopTop ==
  /\ Running /\ frame.pc = "after_init"
  /\ Pulled(LoopTop(frame))

PullConversation ==
  /\ Running /\ frame.pc = "after_agent_start"
  /\ \E raises \in BOOLEAN, c \in ChunkKinds :
        LET g == BeginConversation(frame, raises)
        IN /\ c = "content" => g.chunks < MaxChunks
           /\ Pulled(IF g.pc = "in_stream" THEN NextChunk(g, c) ELSE g)

PullChunk ==
  /\ Running /\ frame.pc = "in_stream"
  /\ \E c \in ChunkKinds :
        /\ c = "content" => frame.chunks < MaxChunks
        /\ Pulled(NextChunk(frame, c))

PullExtract ==
  /\ Running /\ frame.pc = "after_finish"
  /\ \/ \E parsed \in {"garbage", "invalid"} :
          Pulled(Extract(frame, parsed, RunRaised))
     \/ \E m \in OracleMessages(frame.oracle_calls, frame.agent_name) :
          \E o \in AgentCall(frame.agent_name, m) :
            Pulled(Extract(frame, "json", o))

PullAgentEnd ==
  /\ Running /\ frame.pc = "after_turn_metadata"
  /\ Pulled(AfterTurnMetadata(frame))

PullAgentEndAfterError ==
  /\ Running /\ frame.pc = "after_inner_error"
  /\ Pulled(AfterInnerError(frame))

PullMessage ==
  /\ Running /\ frame.pc = "after_agent_end"
  /\ Pulled(AfterAgentEnd(frame))

PullNextTurn ==
  /\ Running /\ frame.pc = "after_message"
  /\ Pulled(AfterMessage(frame))

PullRetry ==
  /\ Running /\ frame.pc = "after_error"
  /\ Pulled(AfterError(frame))

\* after pause or the final metadata: break, save, the generator returns
PullFinish ==
  /\ Running /\ frame.pc \in {"after_pause", "after_end"}
  /\ Pulled(Finish(frame))

\* after the fatal error of a resumed run the generator returns unsaved
PullAfterFatal ==
  /\ Running /\ frame.pc = "after_fatal"
  /\ Pulled([frame EXCEPT !.pc = "done", !.outcome = "exhausted"])

\* server.py generate(): on a pause event the snapshot is stored and the
\* handler returns, abandoning the generator (494-506, 820-830)
SavePausedContext ==
  /\ Running /\ frame.pc = "after_pause"
  /\ LET ev == frame.events[Len(frame.events)]
     IN snapshot' = JsonDumps([context |-> ev.context,
                               agent_history |-> ev.agent_history])
  /\ mode' = "paused"
  /\ UNCHANGED <<frame, stub, resume_data, full_messages, resumes, paused, norm, extraction, construction,
                 reload, client, multi, server, handoff, store>>

\* chat_stream_resume (665-668, 810-815): the stored snapshot is read and
\* the resumed generator is created
ResumeCall ==
  /\ mode = "paused"
  /\ snapshot # NoSnapshot
  /\ resumes < MaxResumes
  /\ resume_data' = JsonLoads(snapshot)
  /\ frame' = NewFrame("start")
  /\ mode' = "resume"
  /\ resumes' = resumes + 1
  /\ UNCHANGED <<stub, snapshot, full_messages, paused, norm, extraction, construction,
                 reload, client, multi, server, handoff, store>>

\* the consumer stops iterating the generator (the HTTP client went away,
\* or the caller dropped the loop): the generator stays suspended at the
\* yield that produced the last event
StopPulling ==
  /\ Running /\ frame.pc \notin {"start", "done"}
  /\ mode' = "abandoned"
  /\ UNCHANGED <<frame, stub, snapshot, resume_data, full_messages, resumes,
                 paused, norm, extraction, construction, reload, client,
                 multi, server, handoff, store>>

\* a close that resumes the loop for one more chunk of the oracle stream
GeneratorExitDrainsStream(f) ==
  [f EXCEPT !.chunks = @ + 1, !.pc = "done", !.outcome = "closed"]

\* generator.close() of a suspended generator raises GeneratorExit at the
\* yield.  GeneratorExit is not an Exception: none of the "except
\* Exception" handlers of _stream_call (361), _stream_llm_call (594) or
\* _stream_call_resume (961, 980) catches it, and no try has a finally
\* clause, so the frame is unwound without running any statement
GeneratorExit(f) == [f EXCEPT !.pc = "done", !.outcome = "closed"]

\* the abandoned generator object is released and closed
CloseGenerator ==
  /\ mode = "abandoned" /\ frame.pc # "done"
  /\ frame' = GeneratorExit(frame)
  /\ UNCHANGED <<mode, stub, snapshot, resume_data, full_messages, resumes,
                 paused, norm, extraction, construction, reload, client,
                 multi, server, handoff, store>>

Next ==
  \/ SyncCall
  \/ StreamCall
  \/ PullStart
  \/ PullResumeStart
  \/ PullResumeFirstTurn
  \/ PullLoopTop
  \/ PullConversation
  \/ PullChunk
  \/ PullExtract
  \/ PullAgentEnd
  \/ PullAgentEndAfterError
  \/ PullMessage
  \/ PullNextTurn
  \/ PullRetry
  \/ PullFinish
  \/ PullAfterFatal
  \/ SavePausedContext
  \/ ResumeCall
  \/ StopPulling
  \/ CloseGenerator

Spec == Init /\ [][Next]_vars

\* ------------------------------------------- Agent.__call__ on its own
\* the values run() can hand to normalize_agent_output: mappings over two
\* keys whose values are None, a string or an empty list; the empty
\* mapping; None; scalars; collections and other objects; a full Message
RunKeys == {"rows", "count"}
RunKeyValues == {<<"None", "None">>, <<"str", "x">>, <<"list", "[]">>}

RunMappings ==
  UNION {{DictData({<<k, f[k][1], f[k][2]>> : k \in K}) :
            f \in [K -> RunKeyValues]} : K \in SUBSET RunKeys}

RunScalars ==
  {ScalarData("str", "x"), ScalarData("str", ""), ScalarData("int", "4"),
   ScalarData("int", "0"), ScalarData("float", "0.5"),
   ScalarData("bool", "False")}

RunCollections ==
  {ScalarData("list", "[]"), ScalarData("list", "[1]"),
   ScalarData("list", "[None]"), ScalarData("tuple", "(1,)"),
   ScalarData("object", "obj")}

RunResultValues ==
  {ValueResult(v) :
     v \in RunMappings \cup RunScalars \cup RunCollections \cup {NoneData}}
    \cup {MessageResult(Message("success", <<"t">>, NoneData, "custom_agent",
                                "r", None))}

InputMessages ==
  {Message("success", tl, DictData({<<"query", "str", "q">>}), "test_agent",
           "test", None) : tl \in {<<>>, <<"test task">>}}

InitNorm ==
  /\ mode = "idle"
  /\ frame = NewFrame("idle")
  /\ stub = [parsed |-> None, msg |-> NoMessage]
  /\ snapshot = NoSnapshot
  /\ resume_data = NoSnapshot
  /\ full_messages = <<>>
  /\ resumes = 0
  /\ paused = NoPause
  /\ extraction = NoExtraction
  /\ construction = NoConstruction
  /\ reload = NoReload
  /\ client = NoClient
  /\ multi = NoMulti
  /\ server = NoServer
  /\ handoff = NoHandoff
  /\ store = NoStore
  /\ \E r \in RunResultValues, m \in InputMessages,
        a \in {"plugin_agent", "sql_agent"} :
        norm = [NoCall EXCEPT !.agent_name = a, !.input_message = m,
                              !.result = r]

\* Agent.__call__ (core/agent.py 251-254): result = self.run(message), then
\* normalize_agent_output(result, message, self.name)
AgentCallNormalize ==
  /\ ~norm.done
  /\ norm' = [norm EXCEPT
                !.done = TRUE,
                !.output = normalize_agent_output(norm.result,
                                                  norm.input_message,
                                                  norm.agent_name)]
  /\ UNCHANGED <<mode, frame, stub, snapshot, resume_data, full_messages,
                 resumes, paused, extraction,
                 construction, reload, client, multi, server, handoff, store>>

NextNorm == AgentCallNormalize

SpecNorm == InitNorm /\ [][NextNorm]_vars

\* ------------------------------------------------- extraction on its own
\* Oracle text is a sequence of atoms: single backticks, the tag word, the
\* marker token, white space, prose, and pieces of a Message's JSON text.
\* one backtick character
Backtick == "BACKTICK"
Fence == <<Backtick, Backtick, Backtick>>
DoubleBacktick == <<Backtick, Backtick>>
Marker == <<"<|message|>">>
WhiteSpace == {" ", "NL"}

\* str.find: the first index at which sep occurs in s, 0 if it does not
Find(s, sep) ==
  LET hits == {i \in 1..(Len(s) - Len(sep) + 1) :
                 SubSeq(s, i, i + Len(sep) - 1) = sep}
  IN IF hits = {} THEN 0 ELSE CHOOSE i \in hits : \A j \in hits : i <= j

\* the "in" operator on strings
Contains(s, sep) == Find(s, sep) # 0

\* str.split(sep)
RECURSIVE Split(_, _)
Split(s, sep) ==
  LET i == Find(s, sep)
  IN IF i = 0 THEN <<s>>
     ELSE <<SubSeq(s, 1, i - 1)>> \o Split(SubSeq(s, i + Len(sep), Len(s)), sep)

\* str.strip()
Strip(s) ==
  LET keep == {i \in 1..Len(s) : s[i] \notin WhiteSpace}
  IN IF keep = {} THEN <<>>
     ELSE SubSeq(s, CHOOSE i \in keep : \A j \in keep : i <= j,
                    CHOOSE i \in keep : \A j \in keep : j <= i)

\* the Messages whose JSON text is extracted: a plain one, one with white
\* space between its members, one whose message field quotes the marker
\* token, one whose message field holds a fenced code block
ExtractedMessages == {"m_plain", "m_spaced", "m_marker", "m_fenced"}

\* json.dumps of the Message: its bare content
BareContent(m) ==
  CASE m = "m_plain" -> <<"{plain}">>
    [] m = "m_spaced" -> <<"{spaced,", " ", "}">>
    [] m = "m_marker" -> <<"{marker:", "<|message|>", "}">>
    [] OTHER -> <<"{fenced:">> \o Fence \o <<"code">> \o Fence \o <<"}">>

JSONDecodeError == "JSONDecodeError"

\* json.loads followed by Message(**json_response)
JsonLoadsMessage(json_str) ==
  IF \E m \in ExtractedMessages : BareContent(m) = json_str
  THEN CHOOSE m \in ExtractedMessages : BareContent(m) = json_str
  ELSE JSONDecodeError

\* _stream_llm_call 526-555
StreamExtraction(complete_content) ==
  LET stripped == Strip(complete_content)
      parts == Split(stripped, Fence)
      block == Strip(parts[2])
      unfenced ==
        IF Contains(stripped, Fence)
        THEN IF Len(parts) >= 2
             THEN IF block # <<>> /\ block[1] = "json"
                  THEN Strip(Tail(block)) ELSE block
             ELSE Strip(parts[Len(parts)])
        ELSE stripped
      marked == Split(unfenced, Marker)
      json_str == IF Contains(unfenced, Marker)
                  THEN Strip(marked[Len(marked)]) ELSE unfenced
  IN JsonLoadsMessage(json_str)

\* _conversation 451-454
SyncExtraction(content) ==
  LET marked == Split(content, Marker)
      ticks == Split(marked[Len(marked)], DoubleBacktick)
  IN JsonLoadsMessage(Strip(ticks[Len(ticks)]))

\* the shapes of oracle text: the bare content, or the content in a fenced
\* block with the tag word, the marker token inside or in front of the block
TextForms == {"bare", "marker_in_fence", "marker_before_fence"}

OracleText(m, form, lead, gap, trail) ==
  LET nl(b) == IF b THEN <<"NL">> ELSE <<>>
      prose == IF lead THEN <<"prose", "NL">> ELSE <<>>
      body == BareContent(m)
  IN CASE form = "bare" -> nl(lead) \o body \o nl(trail)
       [] form = "marker_in_fence" ->
            prose \o Fence \o <<"json">> \o nl(gap) \o Marker \o body
              \o nl(gap) \o Fence \o nl(trail)
       [] OTHER ->
            prose \o Marker \o Fence \o <<"json">> \o nl(gap) \o body
              \o nl(gap) \o Fence \o nl(trail)

InitExtract ==
  /\ mode = "idle"
  /\ frame = NewFrame("idle")
  /\ stub = [parsed |-> None, msg |-> NoMessage]
  /\ snapshot = NoSnapshot
  /\ resume_data = NoSnapshot
  /\ full_messages = <<>>
  /\ resumes = 0
  /\ paused = NoPause
  /\ norm = NoCall
  /\ construction = NoConstruction
  /\ reload = NoReload
  /\ client = NoClient
  /\ multi = NoMulti
  /\ server = NoServer
  /\ handoff = NoHandoff
  /\ store = NoStore
  /\ \E m \in ExtractedMessages, form \in TextForms,
        lead \in BOOLEAN, gap \in BOOLEAN, trail \in BOOLEAN :
        extraction = [NoExtraction EXCEPT
                        !.m = m, !.form = form,
                        !.text = OracleText(m, form, lead, gap, trail)]

\* the streaming turn extracts the Message from the joined chunks
StreamExtract ==
  /\ extraction.stream_out = None
  /\ extraction' = [extraction EXCEPT
                      !.stream_out = StreamExtraction(extraction.text)]
  /\ UNCHANGED <<mode, frame, stub, snapshot, resume_data, full_messages,
                 resumes, paused, norm,
                 construction, reload, client, multi, server, handoff, store>>

\* the synchronous turn extracts the Message from the response content
SyncExtract ==
  /\ extraction.sync_out = None
  /\ extraction' = [extraction EXCEPT
                      !.sync_out = SyncExtraction(extraction.text)]
  /\ UNCHANGED <<mode, frame, stub, snapshot, resume_data, full_messages,
                 resumes, paused, norm,
                 construction, reload, client, multi, server, handoff, store>>

NextExtract == StreamExtract \/ SyncExtract

SpecExtract == InitExtract /\ [][NextExtract]_vars

\* ---------------------------------------------- pluginManager.__init__
\* What a file of the plugin directory turns out to be: a module whose class
\* is an Agent with a name and an is_active flag; a module that fails to
\* import or lacks the class (ImportError, AttributeError); a class that is
\* not an Agent; a class whose constructor raises; a file that is not *.py
PluginAgentNames == {"plugin_agent", "sql_agent", GeneralAgentName}

AgentFile(name, is_active) ==
  [kind |-> "agent", name |-> name, is_active |-> is_active]
OtherFile(kind) == [kind |-> kind, name |-> None, is_active |-> FALSE]

PluginFiles ==
  {AgentFile(n, TRUE) : n \in PluginAgentNames}
    \cup {AgentFile("plugin_agent", FALSE)}
    \cup {OtherFile(k) :
            k \in {"import_error", "not_agent", "init_raises", "not_py"}}

\* os.listdir(plugin_src), in the order the file system gives
PluginDirectories ==
  UNION {[1..n -> PluginFiles] : n \in 0..MaxFiles}

\* mcp_configs: none, or one server whose agent is active or not
McpConfigs == {None, "mcp_active", "mcp_inactive"}

AgentEntry(name, is_active) == [name |-> name, is_active |-> is_active]
AgentNames(agents) == {agents[i].name : i \in 1..Len(agents)}

\* the built-in capabilities in the order __init__ adds them
BuiltinAgents ==
  << AgentEntry(start_agent_name, FALSE), AgentEntry(GeneralAgentName, TRUE),
     AgentEntry("demand_agent", TRUE) >>

\* AgentLoader.add_agent: the dict after the call, raised when the name is
\* already a key (ValueError)
add_agent(agents, agent) ==
  IF agent.name \in AgentNames(agents)
  THEN [raised |-> TRUE, agents |-> agents]
  ELSE [raised |-> FALSE, agents |-> Append(agents, agent)]

\* one iteration of the loop of load_plugins: TRUE in raised when an
\* exception leaves the loop (only ImportError, AttributeError and
\* ValueError are caught)
load_plugin(agents, file) ==
  CASE file.kind = "agent" ->
         [raised |-> FALSE,
          agents |-> add_agent(agents,
                               AgentEntry(file.name, file.is_active)).agents]
    [] file.kind = "init_raises" -> [raised |-> TRUE, agents |-> agents]
    [] OTHER -> [raised |-> FALSE, agents |-> agents]

\* the three add_agent calls of __init__, none of them in a try block
RECURSIVE add_builtins(_, _)
add_builtins(agents, builtins) ==
  IF builtins = <<>> THEN [raised |-> FALSE, agents |-> agents]
  ELSE LET r == add_agent(agents, Head(builtins))
       IN IF r.raised THEN r ELSE add_builtins(r.agents, Tail(builtins))

\* a listing that shows every registered capability
to_json_all_agents(agents) == [i \in 1..Len(agents) |-> agents[i].name]

\* AgentLoader.to_json / pluginManager.to_string: the active capabilities in
\* the order of the dict
to_json(agents) ==
  LET active == SelectSeq(agents, LAMBDA a : a.is_active)
  IN [i \in 1..Len(active) |-> active[i].name]

InitRegistry ==
  /\ mode = "idle"
  /\ frame = NewFrame("idle")
  /\ stub = [parsed |-> None, msg |-> NoMessage]
  /\ snapshot = NoSnapshot
  /\ resume_data = NoSnapshot
  /\ full_messages = <<>>
  /\ resumes = 0
  /\ paused = NoPause
  /\ norm = NoCall
  /\ extraction = NoExtraction
  /\ reload = NoReload
  /\ client = NoClient
  /\ multi = NoMulti
  /\ server = NoServer
  /\ handoff = NoHandoff
  /\ store = NoStore
  /\ \E dir \in PluginDirectories, mcp \in McpConfigs :
        construction = [NoConstruction EXCEPT !.files = dir, !.mcp = mcp,
                                              !.phase = "plugins"]

RegistryUnchanged ==
  UNCHANGED <<mode, frame, stub, snapshot, resume_data, full_messages,
              resumes, paused, norm, extraction, reload, client, multi, server, handoff, store>>

\* load_plugins: the next file of the directory
LoadPlugin ==
  /\ construction.phase = "plugins" /\ construction.files # <<>>
  /\ LET r == load_plugin(construction.agents, Head(construction.files))
     IN construction' =
          [construction EXCEPT !.files = Tail(@), !.agents = r.agents,
                               !.phase = IF r.raised THEN "raised" ELSE @]
  /\ RegistryUnchanged

\* __init__ after load_plugins: the built-in capabilities
AddBuiltins ==
  /\ construction.phase = "plugins" /\ construction.files = <<>>
  /\ LET r == add_builtins(construction.agents, BuiltinAgents)
     IN construction' =
          [construction EXCEPT !.agents = r.agents,
                               !.phase = IF r.raised THEN "raised" ELSE "mcp"]
  /\ RegistryUnchanged

\* MCPAgent derives from a pydantic BaseModel and assigns attributes
\* (self.name = name, ...) before BaseModel.__init__ has run, and on the
\* inactive path never runs it.  Whether such an assignment is accepted or
\* raises AttributeError is decided by the installed pydantic build.
PydanticBuilds == {"assignable", "strict"}

\* MCPAgent.__init__ (26-148) with _setup_inactive_agent (150-170): the
\* agent that results, or raised when an exception leaves the constructor
MCPAgentInit(config, build) ==
  IF build = "strict"
  THEN [raised |-> TRUE, agent |-> AgentEntry("mcp_agent", FALSE)]
  ELSE [raised |-> FALSE,
        agent |-> AgentEntry("mcp_agent", config = "mcp_active")]

\* load_mcp_agents: the agent is added whether active or not; every
\* exception is caught, the agent of a constructor that raised is not added
LoadMcpAgents ==
  /\ construction.phase = "mcp"
  /\ \E build \in PydanticBuilds :
       LET r == MCPAgentInit(construction.mcp, build)
       IN construction' =
            [construction EXCEPT
               !.agents = IF construction.mcp = None \/ r.raised THEN @
                          ELSE add_agent(@, r.agent).agents,
               !.phase = "ready"]
  /\ RegistryUnchanged

\* pluginManager.to_string()
to_string ==
  /\ construction.phase = "ready" /\ Len(construction.listings) < 2
  /\ construction' =
       [construction EXCEPT !.listings = Append(@, to_json(construction.agents))]
  /\ RegistryUnchanged

\* load_plugins over a whole directory
RECURSIVE load_plugins(_, _)
load_plugins(agents, files) ==
  IF files = <<>> THEN [raised |-> FALSE, agents |-> agents]
  ELSE LET r == load_plugin(agents, Head(files))
       IN IF r.raised THEN r ELSE load_plugins(r.agents, Tail(files))

ReloadDirectories ==
  UNION {[1..n -> PluginFiles] : n \in 0..MaxReloadFiles}

\* server.py reload_agents (261-302): agent_manager.agents.reload_plugins()
\* is called, but pluginManager defines no such method: AttributeError is
\* caught by "except Exception" and answered with HTTP 500; the registry is
\* not touched
reload_agents ==
  /\ construction.phase = "ready" /\ reload.status = None
  /\ \E dir \in ReloadDirectories :
        reload' = [directory |-> dir, status |-> "500"]
  /\ UNCHANGED <<mode, frame, stub, snapshot, resume_data, full_messages,
                 resumes, paused, norm, extraction, construction,
                 client, multi, server, handoff, store>>

NextRegistry ==
  LoadPlugin \/ AddBuiltins \/ LoadMcpAgents \/ to_string \/ reload_agents

SpecRegistry == InitRegistry /\ [][NextRegistry]_vars

\* ------------------------------------------------------ core/mcp_client.py
\* MCPClient over one of its two transports, SyncMCPClient around it, and
\* the MCPAgent that owns them.  A connection is a subprocess (stdio) or an
\* aiohttp session (sse); client.conns lists the connections opened so far,
\* client.conn is the one self.process / self.session refers to (0: None).
Transports == {"stdio", "sse"}

\* a line on a provider's stdout, or the answer to an HTTP POST
Line(id, error, status) == [id |-> id, error |-> error, status |-> status]
\* a message without id (request ids start at 1); no HTTP status
NoId == 0
NoStatus == 0
NoLine == Line(NoId, FALSE, NoStatus)

\* what a stdio provider writes to its stdout upon a request: its response,
\* with or without an error member, possibly preceded by a notification
\* (a line without id); or nothing, when the process exits instead
StdioEmissions(id) ==
  {<<>>} \cup {pre \o <<Line(id, e, NoStatus)>> :
                 pre \in {<<>>, <<NoLine>>}, e \in BOOLEAN}

\* what an HTTP provider answers to a POST
HttpAnswers(id) == {Line(id, e, st) : e \in BOOLEAN, st \in {200, 500}}

\* the provider's possible reactions to the next request of the client
Behaviours(c) ==
  IF c.transport = "sse" THEN HttpAnswers(c.request_id + 1)
  ELSE IF c.conn # 0 /\ c.conns[c.conn] = "live"
       THEN StdioEmissions(c.request_id + 1)
       ELSE {<<>>}

\* the reactions of a provider that has just been started or reached
ConnectBehaviours(c) ==
  IF c.transport = "sse" THEN HttpAnswers(c.request_id + 1)
  ELSE StdioEmissions(c.request_id + 1)

WireEntry(c, method, id, awaits, response, outcome) ==
  [conn |-> c.conn, method |-> method, id |-> id, awaits |-> awaits,
   response |-> response, outcome |-> outcome]

\* _next_id (292-295)
next_id(c) == [c EXCEPT !.request_id = @ + 1]

\* _send_request_stdio (232-257): write the request, read ONE line from
\* stdout and take it as the response; emitted is what the provider writes
send_request_stdio(c, method, emitted) ==
  IF c.conn = 0 THEN [c |-> c, raised |-> TRUE]
  ELSE
    LET pipe == c.stdout \o emitted
        d == [c EXCEPT !.conns[c.conn] = IF emitted = <<>> THEN "exited" ELSE @]
    IN IF pipe = <<>>
       THEN [c |-> [d EXCEPT !.wire = Append(@,
                      WireEntry(c, method, c.request_id, "line", NoLine,
                                "raised"))],
             raised |-> TRUE]
       ELSE [c |-> [d EXCEPT !.stdout = Tail(pipe),
                             !.wire = Append(@,
                      WireEntry(c, method, c.request_id, "line", Head(pipe),
                                IF Head(pipe).error THEN "raised"
                                ELSE "returned"))],
             raised |-> Head(pipe).error]

\* _send_request_sse (259-281): POST the request, the answer is the body
send_request_sse(c, method, answer) ==
  IF c.conn = 0 THEN [c |-> c, raised |-> TRUE]
  ELSE LET raised == answer.status # 200 \/ answer.error
       IN [c |-> [c EXCEPT !.wire = Append(@,
                    WireEntry(c, method, c.request_id, "body", answer,
                              IF raised THEN "raised" ELSE "returned"))],
           raised |-> raised]

\* _send_request (222-230), with the id taken by the caller from _next_id
send_request(c, method, x) ==
  IF c.transport = "stdio" THEN send_request_stdio(next_id(c), method, x)
  ELSE send_request_sse(next_id(c), method, x)

\* _send_notification (283-290): written to stdin, nothing is read
send_notification(c, method) ==
  [c EXCEPT !.wire = Append(@, WireEntry(c, method, NoId, "nothing", NoLine,
                                         "sent"))]

\* _connect_stdio (76-91) and _initialize (93-115): a new subprocess
\* replaces self.process; nothing terminates it when the handshake raises
connect_stdio(c, emitted) ==
  LET started == [c EXCEPT !.conns = Append(@, "live"),
                           !.conn = Len(c.conns) + 1, !.stdout = <<>>]
      r == send_request_stdio(next_id(started), "initialize", emitted)
  IN IF r.raised THEN r
     ELSE [c |-> send_notification(r.c, "notifications/initialized"),
           raised |-> FALSE]

\* _connect_sse (297-348): a new session replaces self.session; only the
\* HTTP status of the answer to initialize is looked at, its body is not
\* read; the notification is POSTed and the HTTP answer awaited
connect_sse(c, answer) ==
  LET started == next_id([c EXCEPT !.conns = Append(@, "live"),
                                   !.conn = Len(c.conns) + 1])
      posted == [started EXCEPT !.wire = Append(@,
                   WireEntry(started, "initialize", started.request_id,
                             "status", answer,
                             IF answer.status # 200 THEN "raised"
                             ELSE "returned"))]
  IN IF answer.status # 200
     THEN [c |-> [posted EXCEPT !.conns[posted.conn] = "closed", !.conn = 0],
           raised |-> TRUE]
     ELSE [c |-> [posted EXCEPT !.wire = Append(@,
                    WireEntry(posted, "notifications/initialized", NoId,
                              "status", NoLine, "sent"))],
           raised |-> FALSE]

\* MCPClient.connect (67-74)
connect(c, x) ==
  IF c.transport = "stdio" THEN connect_stdio(c, x) ELSE connect_sse(c, x)

\* MCPClient.list_tools (117-126)
list_tools(c, x) == send_request(c, "tools/list", x)

\* MCPClient.call_tool (128-147)
call_tool(c, x) == send_request(c, "tools/call", x)

\* MCPClient.close (350-371): the process is terminated, the session closed
MCPClientClose(c) ==
  IF c.conn = 0 THEN c
  ELSE [c EXCEPT !.conns[c.conn] = "closed", !.conn = 0]

\* SyncMCPClient.close (462-465): runs the client's close only "if
\* self.loop and not self.loop.is_closed()"; self.loop is set to None in
\* __init__ (413) and never assigned again (_get_loop returns a local)
SyncMCPClientClose(c) == c

InitMcp ==
  /\ mode = "idle"
  /\ frame = NewFrame("idle")
  /\ stub = [parsed |-> None, msg |-> NoMessage]
  /\ snapshot = NoSnapshot
  /\ resume_data = NoSnapshot
  /\ full_messages = <<>>
  /\ resumes = 0
  /\ paused = NoPause
  /\ norm = NoCall
  /\ extraction = NoExtraction
  /\ construction = NoConstruction
  /\ reload = NoReload
  /\ multi = NoMulti
  /\ server = NoServer
  /\ handoff = NoHandoff
  /\ store = NoStore
  /\ \E t \in Transports, h \in BOOLEAN, b \in PydanticBuilds :
        client = [NoClient EXCEPT !.transport = t, !.health_check = h,
                                  !.build = b, !.pc = "new"]

McpUnchanged ==
  UNCHANGED <<mode, frame, stub, snapshot, resume_data, full_messages,
              resumes, paused, norm, extraction, construction, reload,
              multi, server, handoff, store>>

\* MCPAgent.__init__ up to the creation of the clients (56-99)
MCPAgentBegin ==
  /\ client.pc = "new"
  /\ client' = [client EXCEPT !.pc =
                  IF MCPAgentInit("mcp_active", client.build).raised
                  THEN "raised"
                  ELSE IF client.health_check THEN "check" ELSE "connect"]
  /\ McpUnchanged

\* _perform_health_check / _check_connection (248-282): connect, list the
\* tools, close the test connection; any exception makes the agent inactive
CheckConnection ==
  /\ client.pc = "check"
  /\ \E x \in ConnectBehaviours(client) :
       LET r1 == connect(client, x)
       IN IF r1.raised THEN client' = [r1.c EXCEPT !.pc = "inactive"]
          ELSE \E y \in Behaviours(r1.c) :
                 LET r2 == list_tools(r1.c, y)
                 IN client' =
                      IF r2.raised THEN [r2.c EXCEPT !.pc = "inactive"]
                      ELSE [SyncMCPClientClose(r2.c) EXCEPT !.pc = "connect"]
  /\ McpUnchanged

\* MCPAgent.__init__ 101-114: connect and list the tools
AutoConnect ==
  /\ client.pc = "connect"
  /\ \E x \in ConnectBehaviours(client) :
       LET r1 == connect(client, x)
       IN IF r1.raised THEN client' = [r1.c EXCEPT !.pc = "inactive"]
          ELSE \E y \in Behaviours(r1.c) :
                 LET r2 == list_tools(r1.c, y)
                 IN client' = [r2.c EXCEPT !.pc = IF r2.raised THEN "inactive"
                                                 ELSE "ready"]
  /\ McpUnchanged

\* MCPAgent.run (371-416): an inactive agent answers without touching the
\* wire; an active one calls the tool and catches every exception
MCPAgentRun ==
  /\ client.pc \in {"ready", "inactive"} /\ client.calls < MaxCalls
  /\ IF client.pc = "inactive"
     THEN client' = [client EXCEPT !.calls = @ + 1]
     ELSE \E x \in Behaviours(client) :
            client' = [call_tool(client, x).c EXCEPT !.calls = @ + 1]
  /\ McpUnchanged

\* MCPAgent.close (446-453)
MCPAgentClose ==
  /\ client.pc \in {"ready", "inactive"}
  /\ client' = [SyncMCPClientClose(client) EXCEPT !.pc = "closed"]
  /\ McpUnchanged

NextMcp ==
  MCPAgentBegin \/ CheckConnection \/ AutoConnect \/ MCPAgentRun
    \/ MCPAgentClose

SpecMcp == InitMcp /\ [][NextMcp]_vars

\* --------------------------------------- core/agents/mcp_agent.py (composite)
\* MultiMCPAgent: the providers are the entries of mcp_configs; a Python
\* dict is the set of its <<key, value>> pairs.
Tools == {"t1", "t2"}

\* config.get("name", "unknown") of a config without a name
Unknown == 0

\* the i-th provider: its name (i stands for a name of its own), the tools
\* it lists, whether its health check and connect succeed (healthy), and
\* whether its tools/list then succeeds (lists)
ProviderConfigs(i) ==
  {[name |-> n, tools |-> ts, healthy |-> h, lists |-> l] :
     n \in {i, Unknown}, ts \in SUBSET Tools, h \in BOOLEAN, l \in BOOLEAN}

\* mcp_configs: plugin_manager builds the composite for two or more configs
McpConfigLists ==
  {cs \in UNION {[1..n -> UNION {ProviderConfigs(i) : i \in 1..n}] :
                    n \in 2..MaxProviders} :
     \A i \in DOMAIN cs : cs[i] \in ProviderConfigs(i)}

\* d[k] = v
Put(d, k, v) == {p \in d : p[1] # k} \cup {<<k, v>>}
Has(d, k) == \E p \in d : p[1] = k
Get(d, k) == (CHOOSE p \in d : p[1] = k)[2]

RECURSIVE PutAll(_, _, _)
PutAll(d, ks, v) ==
  IF ks = {} THEN d
  ELSE LET k == CHOOSE x \in ks : TRUE
       IN PutAll(Put(d, k, v), ks \ {k}, v)

InitMulti ==
  /\ mode = "idle"
  /\ frame = NewFrame("idle")
  /\ stub = [parsed |-> None, msg |-> NoMessage]
  /\ snapshot = NoSnapshot
  /\ resume_data = NoSnapshot
  /\ full_messages = <<>>
  /\ resumes = 0
  /\ paused = NoPause
  /\ norm = NoCall
  /\ extraction = NoExtraction
  /\ construction = NoConstruction
  /\ reload = NoReload
  /\ client = NoClient
  /\ server = NoServer
  /\ handoff = NoHandoff
  /\ store = NoStore
  /\ \E cs \in McpConfigLists, b \in PydanticBuilds :
        multi = [NoMulti EXCEPT !.configs = cs, !.build = b, !.pc = "new",
                                !.next = 1]

MultiUnchanged ==
  UNCHANGED <<mode, frame, stub, snapshot, resume_data, full_messages,
              resumes, paused, norm, extraction, construction, reload,
              client, server, handoff, store>>

\* MultiMCPAgent.__init__ 687-692: attributes are assigned before
\* BaseModel.__init__ has run
MultiMCPAgentBegin ==
  /\ multi.pc = "new"
  /\ multi' = [multi EXCEPT !.pc = IF multi.build = "strict" THEN "raised"
                                   ELSE "connecting"]
  /\ MultiUnchanged

\* one iteration of "for config in mcp_configs" (695-752), fail_on_any
\* False: a provider that fails is appended to failed_servers and skipped;
\* one that connects is stored under its server name (735) before its
\* tools are listed (737), and a tools/list that raises is handled by the
\* same except clause (747-749); the tools listed are entered in all_tools
ConnectServer ==
  /\ multi.pc = "connecting" /\ multi.next <= Len(multi.configs)
  /\ LET config == multi.configs[multi.next]
     IN multi' =
          IF ~config.healthy
          THEN [multi EXCEPT !.failed_servers = Append(@, config.name),
                             !.next = @ + 1]
          ELSE IF ~config.lists
          THEN [multi EXCEPT
                  !.mcp_clients = Put(@, config.name, multi.next),
                  !.failed_servers = Append(@, config.name),
                  !.next = @ + 1]
          ELSE [multi EXCEPT
                  !.mcp_clients = Put(@, config.name, multi.next),
                  !.all_tools = PutAll(@, config.tools, config.name),
                  !.next = @ + 1]
  /\ MultiUnchanged

\* __init__ after the loop (755-775)
FinishInit ==
  /\ multi.pc = "connecting" /\ multi.next > Len(multi.configs)
  /\ multi' = [multi EXCEPT !.pc = IF multi.mcp_clients = {} THEN "inactive"
                                   ELSE "ready"]
  /\ MultiUnchanged

Call(tool, contacted, status) ==
  [tool |-> tool, contacted |-> contacted, status |-> status]

\* MultiMCPAgent.run (837-894): the call that results for a tool name;
\* raises: the provider's call_tool raises
Route(m, tool_name, raises) ==
  IF m.pc = "inactive" \/ tool_name = None \/ ~Has(m.all_tools, tool_name)
  THEN Call(tool_name, 0, "error")
  ELSE LET server_name == Get(m.all_tools, tool_name)
       IN IF ~Has(m.mcp_clients, server_name)
          THEN Call(tool_name, 0, "error")
          ELSE Call(tool_name, Get(m.mcp_clients, server_name),
                    IF raises THEN "error" ELSE "success")

MultiMCPAgentRun ==
  /\ multi.pc \in {"ready", "inactive"} /\ Len(multi.calls) < MaxCalls
  /\ \E tool_name \in Tools \cup {None}, raises \in BOOLEAN :
        multi' = [multi EXCEPT !.calls = Append(@, Route(multi, tool_name,
                                                         raises))]
  /\ MultiUnchanged

NextMulti ==
  MultiMCPAgentBegin \/ ConnectServer \/ FinishInit \/ MultiMCPAgentRun

SpecMulti == InitMulti /\ [][NextMulti]_vars

\* get_status (896-905) of the composite
get_status(m) ==
  [total_servers |-> Cardinality({p[1] : p \in m.mcp_clients})
                       + Len(m.failed_servers),
   connected_servers |-> Cardinality({p[1] : p \in m.mcp_clients}),
   failed_servers |-> m.failed_servers,
   total_tools |-> Cardinality({p[1] : p \in m.all_tools})]

\* ------------------------------------------------------------ api/server.py
\* The streaming endpoints.  A request is in flight from the moment its
\* handler has run until its generate() has returned; generate() yields to
\* the event loop after every event ("await asyncio.sleep(0)"), where the
\* handler or the generator of another request runs.
Sessions == {"s1", "s2"}

\* the capabilities whose get_prompt() returns their PromptTemplate
TemplateOwners == {a \in RegisteredNames : Registry[a].prompt_ok}

\* pluginManager.to_string() of the registry: the same text on every call
RegistryListing == "active agents"

\* _conversation 431-432: the listing is assigned to a field of the
\* capability's own PromptTemplate object, the one every loop gets from
\* agent.get_prompt()
Conversation(templates, agent_name) ==
  [templates EXCEPT ![agent_name] = RegistryListing]

Request(session, kind, paused_context) ==
  [session |-> session, kind |-> kind, pc |-> "running",
   agent_name |-> start_agent_name, turns |-> 0,
   resume_data |-> paused_context]

InitSessions ==
  /\ mode = "idle"
  /\ frame = NewFrame("idle")
  /\ stub = [parsed |-> None, msg |-> NoMessage]
  /\ snapshot = NoSnapshot
  /\ resume_data = NoSnapshot
  /\ full_messages = <<>>
  /\ resumes = 0
  /\ paused = NoPause
  /\ norm = NoCall
  /\ extraction = NoExtraction
  /\ construction = NoConstruction
  /\ reload = NoReload
  /\ client = NoClient
  /\ multi = NoMulti
  /\ handoff = NoHandoff
  /\ store = NoStore
  /\ server = [requests |-> <<>>,
               rows |-> [s \in Sessions |->
                           [messages |-> <<>>, paused_context |-> None,
                            full_messages |-> 0, last |-> "none"]],
               templates |-> [a \in TemplateOwners |-> None]]

SessionsUnchanged ==
  UNCHANGED <<mode, frame, stub, snapshot, resume_data, full_messages,
              resumes, paused, norm, extraction, construction, reload,
              client, multi, handoff, store>>

\* chat_stream (367-410): the user message is stored and the loop of the
\* request is set up; nothing looks at the requests already in flight
chat_stream ==
  /\ Len(server.requests) < MaxRequests
  /\ \E s \in Sessions :
        server' = [server EXCEPT
                     !.rows[s].messages = Append(@, "user"),
                     !.requests = Append(@, Request(s, "stream", None))]
  /\ SessionsUnchanged

\* chat_stream_resume (631-678): 404 without a stored snapshot; otherwise
\* the snapshot is read (not cleared) and the resumed loop is set up
chat_stream_resume ==
  /\ Len(server.requests) < MaxRequests
  /\ \E s \in Sessions :
        /\ server.rows[s].paused_context # None
        /\ server' = [server EXCEPT
                        !.requests = Append(@,
                           Request(s, "resume",
                                   server.rows[s].paused_context))]
  /\ SessionsUnchanged

\* one turn of the loop of request r, pulled by its generate(): what
\* remains of the request and of its session's row after the turn.  A pause
\* stores the snapshot and the reply (494-506, 820-830); the end of the
\* loop appends to the session's context (agent_manager 376-402), stores
\* the reply, and a resumed request then clears the snapshot (941-942).
\* last: how the loop that ended most recently on the session ended
Turn(r, outcome, next_agent) ==
  LET req == server.requests[r]
      s == req.session
      row == server.rows[s]
      ended == outcome = "end" \/ req.turns + 1 >= MaxTurns
  IN [server EXCEPT
        !.templates = Conversation(@, req.agent_name),
        !.requests[r] =
           [req EXCEPT !.turns = @ + 1, !.agent_name = next_agent,
                       !.pc = IF outcome = "pause" \/ ended THEN "done"
                              ELSE "running"],
        !.rows[s] =
           IF outcome = "pause"
           THEN [row EXCEPT !.paused_context = <<"paused by", r>>,
                            !.messages = Append(@, "assistant"),
                            !.last = "paused"]
           ELSE IF ended
           THEN [row EXCEPT !.full_messages = @ + 2,
                            !.messages = Append(@, "assistant"),
                            !.last = "ended",
                            !.paused_context =
                               IF req.kind = "resume" THEN None ELSE @]
           ELSE row]

PullTurn ==
  /\ \E r \in 1..Len(server.requests) :
        /\ server.requests[r].pc = "running"
        /\ \E outcome \in {"continue", "pause", "end"},
              next_agent \in TemplateOwners :
              server' = Turn(r, outcome, next_agent)
  /\ SessionsUnchanged

NextSessions == chat_stream \/ chat_stream_resume \/ PullTurn

SpecSessions == InitSessions /\ [][NextSessions]_vars

\* ------------------------------------------------- a capability and a Message
\* One call agent(message): the Message object handed over as it is after
\* the call, the value returned, and whether that value is the same object.
\* tool_failed: the capability's call to its provider raised; raised: the
\* call agent(message) raised
InPlace(after) ==
  [object |-> after, result |-> after, same_object |-> TRUE,
   tool_failed |-> FALSE, raised |-> FALSE]
Fresh(before, result) ==
  [object |-> before, result |-> result, same_object |-> FALSE,
   tool_failed |-> FALSE, raised |-> FALSE]

\* whether MCPAgent.run reaches sync_client.call_tool (391)
CallsTool(message, active) == active /\ TruthyKey(message.data, "tool_name")

\* MCPAgent.run 388-414 (MultiMCPAgent.run 870-892 alike): call_tool is
\* inside "try ... except Exception", whose handler writes status error
\* into the Message and falls through to "return message"
MCPAgentRunReturns(before, after, tool_failed) ==
  [InPlace(after) EXCEPT !.tool_failed = tool_failed]

\* the Message is updated attribute by attribute and returned: general
\* (general_agent.py 17-23), demand (demand_agent.py 264-369) and MCP
\* (mcp_agent.py 371-416) capabilities all write to the object they got
RunInPlace(before, after) == InPlace(after)

\* MCPAgent.run (371-416) on the fields of the Message; raises: call_tool
\* raises
MCPAgentRunMessage(message, active, raises) ==
  LET failed(text) == [message EXCEPT !.status = "error", !.message = text,
                                      !.next_agent = GeneralAgentName]
  IN IF ~active THEN failed("agent unavailable")
     ELSE IF ~TruthyKey(message.data, "tool_name")
     THEN failed("no tool name")
     ELSE IF raises THEN failed("tool call failed")
     ELSE LET task_list == IF message.task_list # <<>>
                           THEN Tail(message.task_list) ELSE <<>>
          IN [message EXCEPT
                !.data = DictData(@.items \cup
                                    {<<"tool_result", "dict", "{result}">>}),
                !.status = "success",
                !.message = "tool call succeeded",
                !.task_list = task_list,
                !.next_agent = IF task_list = <<>> THEN GeneralAgentName
                               ELSE @]

HandoffAgents ==
  {start_agent_name, GeneralAgentName, "demand_agent", "plugin_agent",
   "mcp_agent"}

\* the Messages a capability can be handed
HandoffMessages ==
  { Message("success", t, d, n, "reason", "oracle message") :
      t \in {<<>>, <<"task">>, <<"task", "next task">>},
      d \in {DictData({<<"tool_name", "str", "t1">>}),
             DictData({<<"form_config", "dict", "{fields}">>}),
             DictData({<<"answer", "str", "4">>})},
      n \in {GeneralAgentName, "plugin_agent", TerminalSentinel,
             PauseSentinel} }

\* agent(message) for each kind of capability
Handoffs(name, message) ==
  CASE name = GeneralAgentName ->
         {RunInPlace(message, GeneralAgentCall(message))}
    [] name = "demand_agent" ->
         {RunInPlace(message,
                     normalize_agent_output(DemandAgentRun(message), message,
                                            name))}
    [] name = "mcp_agent" ->
         {MCPAgentRunReturns(
            message,
            normalize_agent_output(
              MessageResult(MCPAgentRunMessage(message, active, raises)),
              message, name),
            CallsTool(message, active) /\ raises) :
            active \in BOOLEAN, raises \in BOOLEAN}
    [] name = "plugin_agent" ->
         {IF r.is_message /\ r.msg = message THEN InPlace(message)
          ELSE Fresh(message, normalize_agent_output(r, message, name)) :
            r \in PluginRunResults(message) \ {ValueResult(UnserialisableDict)}}
    [] OTHER ->
         {InPlace(normalize_agent_output(EntranceAgentRun(message), message,
                                         name))}

InitHandoff ==
  /\ mode = "idle"
  /\ frame = NewFrame("idle")
  /\ stub = [parsed |-> None, msg |-> NoMessage]
  /\ snapshot = NoSnapshot
  /\ resume_data = NoSnapshot
  /\ full_messages = <<>>
  /\ resumes = 0
  /\ paused = NoPause
  /\ norm = NoCall
  /\ extraction = NoExtraction
  /\ construction = NoConstruction
  /\ reload = NoReload
  /\ client = NoClient
  /\ multi = NoMulti
  /\ server = NoServer
  /\ store = NoStore
  /\ \E a \in HandoffAgents, m \in HandoffMessages :
        handoff = [NoHandoff EXCEPT !.agent = a, !.input = m, !.object = m]

\* the capability is called with the Message
CapabilityCall ==
  /\ ~handoff.done
  /\ \E h \in Handoffs(handoff.agent, handoff.input) :
        handoff' = [handoff EXCEPT !.object = h.object, !.result = h.result,
                                   !.same_object = h.same_object,
                                   !.tool_failed = h.tool_failed,
                                   !.raised = h.raised,
                                   !.done = TRUE]
  /\ UNCHANGED <<mode, frame, stub, snapshot, resume_data, full_messages,
                 resumes, paused, norm, extraction, construction, reload,
                 client, multi, server, store>>

NextHandoff == CapabilityCall

SpecHandoff == InitHandoff /\ [][NextHandoff]_vars

\* --------------------------------------------------- core/context_manager.py
\* ContextManager.conversations is the set of its <<session id, context>>
\* pairs; a context is named by its index in store.heap, the objects created
\* so far.  store.messages are the messages the database holds per session.
TraceEntry(role, content, final_answer) ==
  [role |-> role, content |-> content, final_answer |-> final_answer]

\* ConversationContext.__init__ (15-19)
ConversationContext == [full_messages |-> <<>>, context_for_llm |-> <<>>]

\* add_user_message (21-32)
add_user_message(ctx, content) ==
  [ctx EXCEPT
     !.full_messages = Append(@, TraceEntry("user", content, None)),
     !.context_for_llm = Append(@, TraceEntry("user", content, None))]

\* an assistant message put in front of the traces
add_assistant_message_in_front(ctx, full_response, final_answer) ==
  [ctx EXCEPT
     !.full_messages =
        <<TraceEntry("assistant", full_response, final_answer)>> \o @,
     !.context_for_llm =
        <<TraceEntry("assistant", final_answer, None)>> \o @]

\* add_assistant_message (34-54): the full trace gets the whole response,
\* the condensed trace the final answer only
add_assistant_message(ctx, full_response, final_answer) ==
  [ctx EXCEPT
     !.full_messages =
        Append(@, TraceEntry("assistant", full_response, final_answer)),
     !.context_for_llm = Append(@, TraceEntry("assistant", final_answer, None))]

\* ConversationContext.clear (64-67)
clear(ctx) == ConversationContext

\* _extract_final_answer (124-151): the answer of the last JSON object of
\* the text that has one, or the text itself
extract_final_answer(content) ==
  IF content = "json with answer" THEN "answer" ELSE content

\* the messages of a session in the database (role, content)
StoredMessages ==
  { <<>>,
    <<[role |-> "user", content |-> "question"],
      [role |-> "assistant", content |-> "json with answer"]>>,
    <<[role |-> "user", content |-> "question"],
      [role |-> "assistant", content |-> "plain text"]>> }

\* _load_context_from_db (91-122)
RECURSIVE load_context_from_db(_, _)
load_context_from_db(ctx, messages) ==
  IF messages = <<>> THEN ctx
  ELSE LET msg == Head(messages)
       IN load_context_from_db(
            IF msg.role = "user" THEN add_user_message(ctx, msg.content)
            ELSE add_assistant_message(ctx, msg.content,
                                       extract_final_answer(msg.content)),
            Tail(messages))

\* get_or_create_context (77-89): the store after the call; the context
\* returned is Get(conversations, session_id) of that store
get_or_create_context(st, session_id) ==
  IF Has(st.conversations, session_id) THEN st
  ELSE [st EXCEPT
          !.heap = Append(@, load_context_from_db(ConversationContext,
                                                  st.messages[session_id])),
          !.conversations = Put(@, session_id, Len(st.heap) + 1)]

Op(name, session_id, ctx) ==
  [name |-> name, session_id |-> session_id, ctx |-> ctx]

InitContext ==
  /\ mode = "idle"
  /\ frame = NewFrame("idle")
  /\ stub = [parsed |-> None, msg |-> NoMessage]
  /\ snapshot = NoSnapshot
  /\ resume_data = NoSnapshot
  /\ full_messages = <<>>
  /\ resumes = 0
  /\ paused = NoPause
  /\ norm = NoCall
  /\ extraction = NoExtraction
  /\ construction = NoConstruction
  /\ reload = NoReload
  /\ client = NoClient
  /\ multi = NoMulti
  /\ server = NoServer
  /\ handoff = NoHandoff
  /\ \E ms \in [Sessions -> StoredMessages] :
        store = [NoStore EXCEPT !.messages = ms]

ContextUnchanged ==
  UNCHANGED <<mode, frame, stub, snapshot, resume_data, full_messages,
              resumes, paused, norm, extraction, construction, reload,
              client, multi, server, handoff>>

\* the store has room for one more context object of the session
CanGet(session_id) ==
  Has(store.conversations, session_id) \/ Len(store.heap) < MaxContexts

\* AgentManager.__call__ 69-72: the context is fetched and read
GetOrCreateContext ==
  /\ \E s \in Sessions :
        /\ CanGet(s)
        /\ LET st == get_or_create_context(store, s)
           IN store' = [st EXCEPT !.op = Op("get_or_create_context", s,
                                            Get(st.conversations, s))]
  /\ ContextUnchanged

\* the save after a loop (agent_manager 376-402): the context is fetched,
\* the query and the reply are appended
SaveToContext ==
  /\ \E s \in Sessions :
        /\ CanGet(s)
        /\ LET st == get_or_create_context(store, s)
               id == Get(st.conversations, s)
           IN /\ Len(st.heap[id].full_messages) + 2 <= MaxEntries
              /\ store' =
                   [st EXCEPT
                      !.heap[id] = add_assistant_message(
                                     add_user_message(@, "question"),
                                     "full response", "answer"),
                      !.op = Op("add_message", s, id)]
  /\ ContextUnchanged

\* ConversationContext.clear() on a context of the store
ClearContext ==
  /\ \E p \in store.conversations :
        store' = [store EXCEPT !.heap[p[2]] = clear(@),
                               !.op = Op("clear", p[1], p[2])]
  /\ ContextUnchanged

\* remove_context (206-209)
remove_context ==
  /\ \E s \in Sessions :
        store' = [store EXCEPT
                    !.conversations = {p \in @ : p[1] # s},
                    !.op = Op("remove_context", s, 0)]
  /\ ContextUnchanged

\* clear_all (211-213)
clear_all ==
  /\ store' = [store EXCEPT !.conversations = {},
                            !.op = Op("clear_all", None, 0)]
  /\ ContextUnchanged

NextContext ==
  GetOrCreateContext \/ SaveToContext \/ ClearContext \/ remove_context
    \/ clear_all

SpecContext == InitContext /\ [][NextContext]_vars

\* ================================================================== claims
Last(seq) == seq[Len(seq)]

\* the last entry of a trace whose role is not "error"
LastNonError(trace) ==
  LET ok == {i \in 1..Len(trace) : trace[i].role # "error"}
  IN trace[CHOOSE i \in ok : \A j \in ok : j <= i]

EndedDone(f) ==
  /\ f.pc = "done" /\ f.events # <<>>
  /\ Last(f.events).type = "metadata" /\ Last(f.events).stage = "end"
EndedPaused(f) ==
  f.pc = "done" /\ f.events # <<>> /\ Last(f.events).type = "pause"
EndedFailed(f) == f.pc = "done" /\ ~EndedDone(f) /\ ~EndedPaused(f)

\* C1: a synchronous call whose first turn yields a Message with
\* status=success and next_agent "none" stops after that turn (one oracle
\* call, one capability run), returns the trace, and the last non-error
\* entry of the trace is the record of that turn.
C1_SyncTerminalTurnReturnsTrace ==
  ( /\ mode = "sync" /\ frame.pc = "done"
    /\ stub.parsed = "json" /\ stub.msg.status = "success"
    /\ stub.msg.next_agent = TerminalSentinel )
  => /\ frame.outcome = "returned"
     /\ frame.oracle_calls = 1 /\ frame.runs = 1
     /\ LastNonError(frame.context) = system_message(stub.msg)

\* C2: a turn all of whose attempts fail with an exception in the oracle
\* call, the extraction or the capability's run is attempted exactly
\* DefaultMaxTrys times (that many oracle calls) before the loop ends FAILED
\* with an error entry (synchronous) or error event (streaming).
C2_FailedTurnAttemptedNTimes ==
  /\ ( /\ Running /\ frame.pc = "done"
       /\ frame.turn_fails # {}
       /\ frame.turn_fails \subseteq {"oracle", "extract", "run"} )
     => /\ frame.turn_calls = DefaultMaxTrys
        /\ Last(frame.events).type = "error"
  /\ ( /\ mode = "sync" /\ frame.pc = "done"
       /\ stub.parsed \in {"raise", "garbage", "invalid"} )
     => /\ frame.oracle_calls = DefaultMaxTrys
        /\ frame.outcome = "returned"
        /\ Last(frame.context).role = "error"

\* C3: a synchronous call always returns a trace list (no exception
\* escapes), and when the loop did not reach DONE the last entry of the
\* trace has role error.
C3_SyncCallNeverRaises ==
  (mode = "sync" /\ frame.pc = "done")
  => /\ frame.outcome = "returned"
     /\ frame.agent_name # TerminalSentinel
          => Last(frame.context).role = "error"

\* C4: when a streaming run ends FAILED its last event is an error event
\* carrying a recoverable field; recoverable is true only on an error event
\* after which the turn is attempted again and false on the error event
\* after which the loop stops.
C4_FailedRunEndsWithErrorEvent ==
  (Running /\ EndedFailed(frame))
  => /\ Last(frame.events).type = "error"
     /\ Last(frame.events).recoverable = "false"
     /\ \A i \in 1..Len(frame.events) :
          (frame.events[i].type = "error" /\ i < Len(frame.events))
            => frame.events[i].recoverable = "true"

\* the step is a pull of the run's consumer (and not the consumer going away)
ConsumerPulls == mode' = mode

\* C5: a declared failure is never retried: once a turn's Message has
\* status=error, every further step of the run invokes no capability, makes
\* no oracle call and consumes no retry attempt, emits only the turn's
\* agent_end and message events, and the pull after the message event ends
\* the loop.
C5_DeclaredErrorEndsLoop ==
  [][ ( /\ Running /\ frame.pc # "done" /\ ConsumerPulls
        /\ frame.processed_message.status = "error" )
      => /\ frame'.runs = frame.runs
         /\ frame'.oracle_calls = frame.oracle_calls
         /\ frame'.max_trys = frame.max_trys
         /\ frame'.pc \in {frame.pc, "after_agent_end", "after_message", "done"}
         /\ frame.pc = "after_message" => frame'.pc = "done"
         /\ \A i \in Len(frame.events) + 1..Len(frame'.events) :
              frame'.events[i].type \in {"agent_end", "message"} ]_vars

C5_Witness ==
  /\ Running /\ frame.pc = "done"
  /\ frame.processed_message.status = "error"
  /\ Last(frame.events).type = "message"
  /\ Last(frame.events).status = "error"

\* index of the last agent_start event (0 when there is none)
LastAgentStart(evs) ==
  LET starts == {i \in 1..Len(evs) : evs[i].type = "agent_start"}
  IN IF starts = {} THEN 0 ELSE CHOOSE i \in starts : \A j \in starts : j <= i

PauseEmitted(f) == f.events # <<>> /\ Last(f.events).type = "pause"

\* what the pause event carries, and that nothing with stage=end precedes it
PauseCarriesSnapshot(f) ==
  LET evs == f.events
      n == Len(evs)
      s == LastAgentStart(evs)
  IN /\ s > 0
     /\ evs[s].agent_name = f.last_agent
     /\ f.res.status = "success" /\ f.res.next_agent = PauseSentinel
     /\ evs[n].context = f.context
     /\ Last(evs[n].context) = system_message(f.res)
     /\ evs[n].agent_history = f.thinking_steps
     /\ \A i \in 1..n : evs[i].type = "pause" => i = n
     /\ \A i \in 1..n : evs[i].stage # "end"

PauseTurnShape(f) ==
  PauseEmitted(f) =>
    LET evs == f.events
        n == Len(evs)
        s == LastAgentStart(evs)
    IN /\ PauseCarriesSnapshot(f)
       /\ n >= s + 4
       /\ evs[n - 1].type = "message" /\ evs[n - 2].type = "agent_end"
       /\ evs[n - 3].type = "metadata" /\ evs[n - 3].stage = None
       /\ \A i \in s + 1..n - 4 : evs[i].type = "delta"
       /\ \A i \in s..n - 1 : evs[i].agent_name = evs[s].agent_name
       /\ evs[s].agent_name \notin {start_agent_name, GeneralAgentName}
            => Last(f.thinking_steps) = ThinkingStep(evs[s].agent_name, f.res)

C7_ResumeRunsPausingCapability ==
  (mode = "resume" /\ frame.first /\ frame.pc = "after_agent_start")
  => /\ frame.agent_name = paused.by
     /\ Last(frame.events).agent_name = paused.by

\* a resumed run that has consumed the supplementary input and has not
\* paused again: "paused" still describes the run it continues
ResumedPastInput ==
  /\ mode = "resume"
  /\ frame.pc \notin {"start", "after_resume_metadata"}
  /\ \A i \in 1..Len(frame.events) : frame.events[i].type # "pause"

IsPrefix(s, t) == Len(s) <= Len(t) /\ SubSeq(t, 1, Len(s)) = s

\* the running context of the resumed run: the paused context, entry for
\* entry, then the supplementary input, then one entry per successful turn
ResumedContextExtends ==
  LET n == Len(paused.context)
  IN /\ resume_data.context = paused.context
     /\ IsPrefix(paused.context, frame.context)
     /\ Len(frame.context) = n + 1 + frame.turns
     /\ frame.context[n + 1] = user_message(FormInput)
     /\ \A i \in (n + 2)..Len(frame.context) : frame.context[i].role = "system"

\* C8 (as stated): the resumed run's context extends the paused context by
\* the supplementary input and one entry per new successful turn, and its
\* agent history extends the paused history, earlier entries unchanged.
C8_ResumeExtendsContextAndHistory ==
  ResumedPastInput =>
    /\ ResumedContextExtends
    /\ resume_data.agent_history = paused.agent_history
    /\ IsPrefix(paused.agent_history, frame.thinking_steps)

\* C8 (amended): the context part as stated; the agent history keeps every
\* paused entry but the last unchanged, its last paused entry keeps the
\* capability name (the record is overwritten by the re-run turn), and the
\* later turns append.
C8_ResumeExtendsContextReplacesLastStep ==
  ResumedPastInput =>
    LET h == paused.agent_history
        n == Len(h)
    IN /\ ResumedContextExtends
       /\ resume_data.agent_history = h
       /\ Len(frame.thinking_steps) >= n
       /\ \A i \in 1..n :
             IF i < n THEN frame.thinking_steps[i] = h[i]
             ELSE frame.thinking_steps[i].agent_name = h[i].agent_name

C8_Witness ==
  /\ ResumedPastInput /\ frame.pc = "done" /\ frame.turns = 2
  /\ paused.agent_history # <<>>
  /\ Len(frame.thinking_steps) > Len(paused.agent_history)
  /\ frame.thinking_steps[Len(paused.agent_history)] # Last(paused.agent_history)

\* the position of the latest agent_start at or before position i (0: none)
StartOf(ev, i) ==
  LET starts == {j \in 1..i : ev[j].type = "agent_start"}
  IN IF starts = {} THEN 0 ELSE CHOOSE j \in starts : \A k \in starts : k <= j

TurnEventOrdered(ev, i) ==
  LET j == StartOf(ev, i)
      t == ev[i].type
  IN /\ t \in {"delta", "agent_end", "message"} =>
          /\ j > 0
          /\ ev[j].agent_name = ev[i].agent_name
     /\ t = "delta" =>
          \A k \in j..i : ev[k].type \notin {"agent_end", "message"}
     /\ t = "agent_end" =>
          \A k \in j..(i - 1) : ev[k].type \notin {"agent_end", "message"}
     /\ t = "message" =>
          /\ ev[i - 1].type = "agent_end"
          /\ \A k \in j..(i - 1) : ev[k].type # "message"
     /\ (t = "agent_start" /\ i > 1 /\ StartOf(ev, i - 1) > 0) =>
          ((\E k \in StartOf(ev, i - 1)..(i - 1) : ev[k].type = "agent_end")
             => \E k \in StartOf(ev, i - 1)..(i - 1) : ev[k].type = "message")

\* C9: in every streaming run, initial or resumed, the delta events of a
\* turn lie after its agent_start and before its agent_end and message,
\* the message follows the agent_end, and no agent_start of another turn
\* is emitted between a turn's agent_start and its message.
C9_TurnEventsSequential ==
  \A i \in 1..Len(frame.events) : TurnEventOrdered(frame.events, i)

C9_Witness ==
  /\ mode = "resume" /\ frame.pc = "done"
  /\ Cardinality({i \in 1..Len(frame.events) :
                    frame.events[i].type = "message"}) = 2
  /\ Cardinality({i \in 1..Len(frame.events) :
                    /\ frame.events[i].type = "delta"
                    /\ frame.events[i].finish_reason = None}) = 2

\* a returned value that is a non-empty mapping or a non-empty collection
NonEmptyMapping(v) == v.tag = "dict" /\ v.items # {}
NonEmptyCollection(v) ==
  v.tag \in {"list", "tuple"} /\ v.sv \notin {"[]", "()"}
SomeValueNotNone(v) == \E kv \in v.items : kv[2] # "None"

Normalized == norm.done /\ ~norm.result.is_message

\* C10 (as stated): every non-empty mapping or collection returned by run is
\* normalised to status success, next_agent the general fallback capability
\* and data equal to the returned value.
C10_StructuredReturnGoesToFallback ==
  (Normalized /\ (NonEmptyMapping(norm.result.val)
                    \/ NonEmptyCollection(norm.result.val))) =>
    /\ norm.output.status = "success"
    /\ norm.output.next_agent = GeneralAgentName
    /\ norm.output.data = norm.result.val

\* C10 (amended): a non-empty mapping is copied to data unchanged, with
\* next_agent the general fallback capability exactly when one of its values
\* is not None and the terminal sentinel otherwise; a non-empty collection
\* that is not a mapping is wrapped as {result: value} with next_agent the
\* general fallback capability; the status is success in every case.
C10_MappingWithContentGoesToFallback ==
  Normalized =>
    LET v == norm.result.val
        out == norm.output
    IN /\ out.status = "success"
       /\ NonEmptyMapping(v) =>
            /\ out.data = v
            /\ out.next_agent = IF SomeValueNotNone(v) THEN GeneralAgentName
                                ELSE TerminalSentinel
       /\ NonEmptyCollection(v) =>
            /\ out.data = DictData({<<"result", v.tag, v.sv>>})
            /\ out.next_agent = GeneralAgentName

C10_Witness ==
  /\ Normalized
  /\ NonEmptyMapping(norm.result.val)
  /\ \E kv \in norm.result.val.items : kv[2] = "None"
  /\ SomeValueNotNone(norm.result.val)
  /\ norm.output.next_agent = GeneralAgentName
  /\ norm.output.data = norm.result.val

EmptyOrAbsent(v) == v.tag = "None" \/ (v.tag = "dict" /\ v.items = {})

\* C11: None or an empty mapping returned by run is normalised to status
\* success, next_agent the terminal sentinel and empty data.
C11_EmptyReturnTerminates ==
  (Normalized /\ EmptyOrAbsent(norm.result.val)) =>
    /\ norm.output.status = "success"
    /\ norm.output.next_agent = TerminalSentinel
    /\ norm.output.data = norm.result.val
    /\ norm.output.data \in {NoneData, DictData({})}

C11_Witness ==
  /\ Normalized
  /\ norm.result.val = DictData({})
  /\ norm.output.next_agent = TerminalSentinel
  /\ norm.output.data = DictData({})

PrimitiveTags == {"str", "int", "float", "bool"}

\* C12: a returned value that is neither a Message, a mapping nor None is
\* wrapped as {result: value}, next_agent the terminal sentinel for a str,
\* int, float or bool and the general fallback capability otherwise; a
\* returned Message passes through unchanged, so normalising the output
\* again changes nothing.
C12_OtherValuesWrappedMessagesPassThrough ==
  norm.done =>
    LET v == norm.result.val
        out == norm.output
    IN /\ (~norm.result.is_message /\ v.tag \notin {"dict", "None"}) =>
            /\ out.data = DictData({<<"result", v.tag, v.sv>>})
            /\ out.next_agent = IF v.tag \in PrimitiveTags
                                THEN TerminalSentinel ELSE GeneralAgentName
       /\ norm.result.is_message => out = norm.result.msg
       /\ normalize_agent_output(MessageResult(out), norm.input_message,
                                 norm.agent_name) = out

C12_Witness ==
  /\ norm.done /\ ~norm.result.is_message
  /\ norm.result.val = ScalarData("float", "0.5")
  /\ norm.output.data = DictData({<<"result", "float", "0.5">>})
  /\ norm.output.next_agent = TerminalSentinel

ActionTask(agent) == agent \o ":run task"

\* C13 (as stated): the normalised task_list is the input task_list when
\* that is non-empty and otherwise exactly one item naming the capability's
\* action, whatever the data.
C13_TaskListInheritedOrOneItem ==
  Normalized =>
    norm.output.task_list =
      IF norm.input_message.task_list # <<>>
      THEN norm.input_message.task_list
      ELSE <<ActionTask(norm.agent_name)>>

\* C13 (amended): the input task_list is inherited when non-empty; otherwise
\* the list is the capability's action alone when the normalised data is
\* None or an empty mapping, and the action followed by a second item
\* "handle result" when the data is anything else.
C13_TaskListInheritedOrSynthesized ==
  Normalized =>
    norm.output.task_list =
      IF norm.input_message.task_list # <<>>
      THEN norm.input_message.task_list
      ELSE IF EmptyOrAbsent(norm.output.data)
           THEN <<ActionTask(norm.agent_name)>>
           ELSE <<ActionTask(norm.agent_name), "handle result">>

C13_Witness ==
  /\ Normalized
  /\ norm.input_message.task_list = <<>>
  /\ norm.result.val = ScalarData("int", "4")
  /\ Len(norm.output.task_list) = 2

\* the entry capability's answer of the calculator scenario: one task, the
\* calculator capability selected
SelectsCalculator(answer) ==
  /\ answer.parsed = "json"
  /\ answer.msg.status = "success"
  /\ Len(answer.msg.task_list) = 1
  /\ answer.msg.next_agent = "plugin_agent"

\* C14: the synchronous call of the calculator scenario (entry capability
\* selects the calculator, the calculator returns 4) returns a trace of
\* exactly two entries, the user entry and one assistant-final entry.
C14_SyncCalculatorTraceHasTwoEntries ==
  (mode = "sync" /\ frame.pc = "done" /\ SelectsCalculator(stub))
  => /\ frame.outcome = "returned"
     /\ Len(frame.context) = 2
     /\ frame.context[1] = user_message(UserQuery)
     /\ frame.context[2].role = "system"

Wrapped == extraction.form \in {"marker_in_fence", "marker_before_fence"}

\* the streaming extraction of wrapped text gives what it gives for the
\* bare content
StreamExtractionOfWrappedAgrees ==
  (Wrapped /\ extraction.stream_out # None) =>
    extraction.stream_out = StreamExtraction(BareContent(extraction.m))

\* C15: for every Message, extraction of its content wrapped in a fenced
\* block with tag word and marker token gives the same Message as
\* extraction of the bare content, for the streaming and for the
\* synchronous extraction.
C15_WrappedExtractsLikeBare ==
  /\ StreamExtractionOfWrappedAgrees
  /\ (Wrapped /\ extraction.sync_out # None) =>
       extraction.sync_out = SyncExtraction(BareContent(extraction.m))

\* the names the loop may hold as its current capability
ResolvableNames ==
  {start_agent_name, TerminalSentinel, PauseSentinel}
    \cup {n \in RegisteredNames : Registry[n].is_active}

\* C16: in every state of the loop the current capability name is the entry
\* capability, a registered active capability or one of the two sentinels.
C16_CurrentCapabilityResolves ==
  (mode \in {"sync", "stream", "resume"}) =>
    frame.agent_name \in ResolvableNames

\* C17: a turn naming an unregistered capability and a turn naming a
\* registered inactive capability are handled alike: no oracle call for the
\* turn, every attempt consumes one unit of the retry budget, and the loop
\* ends FAILED once the budget is used up.
C17_ResolutionFailureConsumesBudget ==
  (Running /\ frame.pc = "done" /\ frame.last_fail = "resolve") =>
    /\ frame.turn_calls = 0
    /\ frame.turn_attempts = DefaultMaxTrys
    /\ frame.max_trys = 0
    /\ EndedFailed(frame)

\* the general fallback capability has returned a Message for this turn and
\* the message event has been emitted
GeneralTurnReturned(f) ==
  /\ Running /\ f.pc = "after_message"
  /\ f.agent_name = GeneralAgentName /\ f.inner_error = None

\* C18 (as stated): after a turn executed by the general fallback capability
\* the Message's next_agent is a sentinel and the loop's next state is DONE
\* or PAUSED.
C18_GeneralTurnEndsDoneOrPaused ==
  [][GeneralTurnReturned(frame) /\ ConsumerPulls =>
       /\ frame.res.next_agent \in {TerminalSentinel, PauseSentinel}
       /\ frame'.pc \in {"after_end", "after_pause"}]_vars

\* C18 (amended): after a turn executed by the general fallback capability
\* the Message's next_agent is a sentinel and no further turn is started:
\* the loop's next state is DONE or PAUSED when the Message's status is
\* success and FAILED when it is error.
C18_GeneralTurnNeverContinues ==
  [][GeneralTurnReturned(frame) /\ ConsumerPulls =>
       /\ frame.res.next_agent \in {TerminalSentinel, PauseSentinel}
       /\ IF frame.res.status = "success"
          THEN /\ frame'.pc = IF frame.res.next_agent = TerminalSentinel
                              THEN "after_end" ELSE "after_pause"
               /\ Last(frame'.events).type \in {"metadata", "pause"}
          ELSE EndedFailed(frame') /\ frame'.events = frame.events]_vars

C18_Witness ==
  /\ Running /\ frame.pc = "after_end"
  /\ frame.last_agent = GeneralAgentName
  /\ Last(frame.events).stage = "end"

\* C19: the listing holds exactly the registered capabilities whose
\* is_active flag is true, in registration order (so neither the entry
\* capability nor a deactivated provider capability), and two listings of
\* an unchanged registry are identical.
C19_ListingIsActiveCapabilities ==
  \A i \in 1..Len(construction.listings) :
    LET listing == construction.listings[i]
        agents == construction.agents
    IN /\ {listing[k] : k \in 1..Len(listing)} =
            {agents[k].name : k \in {j \in 1..Len(agents) : agents[j].is_active}}
       /\ \A k, l \in 1..Len(listing) :
            k < l => \E a, b \in 1..Len(agents) :
                       a < b /\ agents[a].name = listing[k]
                             /\ agents[b].name = listing[l]
       /\ \A k \in 1..Len(listing) : listing[k] # start_agent_name
       /\ listing = construction.listings[1]

C19_Witness ==
  /\ Len(construction.listings) = 2
  /\ construction.mcp = "mcp_inactive"
  /\ \E k \in 1..Len(construction.listings[2]) :
        construction.listings[2][k] = "sql_agent"
  /\ \E k \in 1..Len(construction.agents) :
        /\ construction.agents[k].name = "plugin_agent"
        /\ ~construction.agents[k].is_active

\* C20: for every plugin directory the construction completes with the
\* three built-in capabilities registered under unique names; a file that
\* fails to load or duplicates a registered name, a built-in's included, is
\* skipped.
C20_ConstructionAlwaysCompletes ==
  /\ construction.phase # "raised"
  /\ construction.phase \in {"mcp", "ready"} =>
       /\ {BuiltinAgents[i] : i \in 1..3} \subseteq
            {construction.agents[k] : k \in 1..Len(construction.agents)}
       /\ \A k, l \in 1..Len(construction.agents) :
            construction.agents[k].name = construction.agents[l].name => k = l

\* the capabilities of a registry that came from plugin files
FileDiscovered(agents) ==
  {agents[i] : i \in 1..Len(agents)}
    \ ({BuiltinAgents[i] : i \in 1..3}
         \cup {AgentEntry("mcp_agent", b) : b \in BOOLEAN})

\* C21: after a reload the built-in and protocol-derived capabilities are
\* registered as before and the file-discovered capabilities are those a
\* fresh load of the plugin directory yields.
C21_ReloadReplacesFileDiscovered ==
  reload.status # None =>
    LET agents == construction.agents
        fresh == load_plugins(<<>>, reload.directory).agents
    IN /\ reload.status = "200"
       /\ {BuiltinAgents[i] : i \in 1..3} \subseteq
            {agents[i] : i \in 1..Len(agents)}
       /\ FileDiscovered(agents) = FileDiscovered(fresh)

\* C22: a configured provider whose environment or connection check fails
\* leaves the construction complete with its capability registered under
\* its name with is_active false.
C22_FailedProviderRegisteredInactive ==
  (construction.mcp = "mcp_inactive" /\ construction.phase = "ready")
  => \E i \in 1..Len(construction.agents) :
       construction.agents[i] = AgentEntry("mcp_agent", FALSE)

\* C27: once the consumer of a streaming run has stopped pulling, no step
\* runs a capability, calls the oracle, reads a chunk of the oracle stream
\* or produces an event.
C27_NoWorkAfterConsumerStops ==
  [][mode = "abandoned" =>
       /\ frame'.runs = frame.runs
       /\ frame'.oracle_calls = frame.oracle_calls
       /\ frame'.chunks = frame.chunks
       /\ frame'.events = frame.events]_vars

\* a run abandoned in the middle of an oracle stream and closed
C27_Witness ==
  /\ mode = "abandoned"
  /\ frame.outcome = "closed"
  /\ frame.oracle_calls > 0
  /\ frame.events # <<>>
  /\ Last(frame.events).type = "delta"

\* the entries of the wire log that are requests
Requests == {i \in 1..Len(client.wire) : client.wire[i].id # NoId}

\* the response read for a request is the answer to it, without an error
Answered(w) == w.response.id = w.id /\ ~w.response.error

\* C23: on every connection the first message sent is initialize; the
\* initialized notification follows an initialize that was answered without
\* an error, with no other message before it, and no reply to it is read.
C23_HandshakeBeforeAnythingElse ==
  \A i \in 1..Len(client.wire) :
    LET w == client.wire[i]
        earlier == {j \in 1..(i - 1) : client.wire[j].conn = w.conn}
    IN /\ earlier = {} => w.method = "initialize"
       /\ w.method = "notifications/initialized" =>
            /\ earlier = {i - 1}
            /\ client.wire[i - 1].method = "initialize"
            /\ Answered(client.wire[i - 1])
            /\ w.awaits \notin {"line", "body"}

\* C24: the ids of the requests increase strictly; a request that returned
\* to its caller was given the response with its own id and no error member;
\* a response with an error member makes the request raise.
C24_RequestGetsItsOwnResponse ==
  \A i \in Requests :
    LET w == client.wire[i]
    IN /\ \A j \in Requests : j < i => client.wire[j].id < w.id
       /\ w.outcome = "returned" => Answered(w)
       /\ w.response.error => w.outcome = "raised"

\* C26: a closed capability has no live connection, and no client ever has
\* two live connections.
C26_ConnectionsClosedAndSingle ==
  LET live == {k \in 1..Len(client.conns) : client.conns[k] = "live"}
  IN /\ client.pc = "closed" => live = {}
     /\ Cardinality(live) <= 1

\* the connected providers that listed a tool
Owners(tool) ==
  {i \in 1..Len(multi.configs) :
     /\ multi.configs[i].healthy /\ multi.configs[i].lists
     /\ tool \in multi.configs[i].tools}

\* C25: a call that reaches a provider reaches a connected provider that
\* listed the tool; a call for a tool no connected provider listed ends in
\* status error with no provider contacted.
C25_RoutedByOwnership ==
  \A k \in 1..Len(multi.calls) :
    LET call == multi.calls[k]
    IN /\ call.contacted # 0 => call.contacted \in Owners(call.tool)
       /\ Owners(call.tool) = {} =>
            call.status = "error" /\ call.contacted = 0

\* the same for configurations whose providers have names of their own
C25_RoutedByOwnershipDistinctNames ==
  (\A i, j \in 1..Len(multi.configs) :
      multi.configs[i].name = multi.configs[j].name => i = j)
  => C25_RoutedByOwnership

\* C28: no two requests of one session are in flight at the same time.
C28_OneLoopPerSession ==
  \A r1, r2 \in 1..Len(server.requests) :
    (/\ r1 # r2
     /\ server.requests[r1].pc = "running"
     /\ server.requests[r2].pc = "running")
    => server.requests[r1].session # server.requests[r2].session

\* C29: no turn of any loop changes a prompt template of the registry.
C29_TurnLeavesRegistryUnchanged ==
  [][server'.templates = server.templates]_vars

\* C30: the Message handed to a capability has the fields it was handed
\* over with, and a result that differs from it is another object.
C30_HandedMessageNotMutated ==
  handoff.done =>
    /\ handoff.object = handoff.input
    /\ handoff.result # handoff.input => ~handoff.same_object

\* C31: when a protocol-derived capability's call to its provider fails,
\* the call of the capability raises (and is the orchestrator's to retry);
\* it does not return a Message.
C31_ToolFailureReachesOrchestrator ==
  (handoff.done /\ handoff.tool_failed) => handoff.raised

\* every context of the store stays the context of its session, and the
\* traces of every context object keep their entries in place
ContextsKeptAndExtended ==
  /\ \A p \in store.conversations : p \in store'.conversations
  /\ \A id \in 1..Len(store.heap) :
       /\ IsPrefix(store.heap[id].full_messages,
                   store'.heap[id].full_messages)
       /\ IsPrefix(store.heap[id].context_for_llm,
                   store'.heap[id].context_for_llm)

\* C32 (as stated): every operation on the store or on a context keeps the
\* context of every session and only appends to the traces.
C32_SameContextAppendOnly ==
  [][ContextsKeptAndExtended]_vars

\* C32 (amended): every operation other than clear, remove_context and
\* clear_all keeps the context of every session and only appends to the
\* traces; get_or_create_context leaves every existing context as it is.
C32_SameContextAppendOnlyUntilCleared ==
  [][ /\ store'.op.name \notin {"clear", "remove_context", "clear_all"}
         => ContextsKeptAndExtended
      /\ store'.op.name = "get_or_create_context"
         => \A id \in 1..Len(store.heap) : store'.heap[id] = store.heap[id]
    ]_vars

\* a context loaded from the database on first use, fetched again and
\* extended by a saved turn
C32_Witness ==
  /\ store.op.name = "add_message"
  /\ Len(store.heap) = 1
  /\ Len(store.heap[1].full_messages) = 4
  /\ store.heap[1].context_for_llm[2].content = "answer"
  /\ store.heap[1].full_messages[2].content = "json with answer"

\* C33: within one loop the entry capability is started, and its entry-mode
\* prompt composed, for the first hop only: never after a successful turn
\* of that loop.
C33_EntryCapabilityFirstHopOnly ==
  (/\ Running
   /\ frame.pc = "after_agent_start"
   /\ frame.agent_name = start_agent_name)
  => frame.turns = 0

\* C34: a resumed run treats a failed turn as an initial run does: while
\* attempts remain the exception is reported as recoverable and the turn is
\* tried again, so no exception ends the run with attempts left over.
C34_ResumedFailureRetriedLikeInitial ==
  (/\ Running
   /\ frame.events # <<>>
   /\ frame.events[Len(frame.events)].type = "error"
   /\ frame.pc \in {"after_error", "after_fatal"})
  => \/ frame.pc = "after_error"
     \/ frame.max_trys <= 1

\* the oracle's answer is a successful Message naming the pause sentinel
SelectsPause(answer) ==
  /\ answer.parsed = "json"
  /\ answer.msg.status = "success"
  /\ answer.msg.next_agent = PauseSentinel

\* no event of the run is about the pause sentinel as a capability
SentinelNeverResolved(f) ==
  \A i \in 1..Len(f.events) :
     f.events[i].type \in {"agent_start", "error"}
       => f.events[i].agent_name # PauseSentinel

\* the streaming loop whose turn selected the pause sentinel ends PAUSED
\* without an attempt for the sentinel
StreamPauseEndsPaused ==
  (mode \in {"stream", "resume", "paused"} /\ frame.agent_name = PauseSentinel)
  => /\ PauseEmitted(frame)
     /\ SentinelNeverResolved(frame)
     /\ frame.max_trys = DefaultMaxTrys

\* C35: in both modes a successful turn whose next_agent is the pause
\* sentinel ends the loop PAUSED, never FAILED, and the sentinel is never
\* looked up, started or retried as a capability.
C35_PauseSentinelEndsPaused ==
  /\ StreamPauseEndsPaused
  /\ (mode = "sync" /\ frame.pc = "done" /\ SelectsPause(stub))
     => frame.outcome = "paused"

\* the oracle's answer is a successful Message that ends the loop
SelectsEnd(answer) ==
  /\ answer.parsed = "json"
  /\ answer.msg.status = "success"
  /\ answer.msg.next_agent = TerminalSentinel

\* the streaming loop run to its end on a first turn whose oracle stream has
\* no content chunk and whose capability call has the outcome o
StreamSingleTurn(o) ==
  LET init == StreamStart(NewFrame("start"), UserQuery, <<>>)
      started == LoopTop(init)
      streamed == NextChunk(BeginConversation(started, FALSE), "finish")
      turn == Extract(streamed, "json", o)
      ended == AfterAgentEnd(AfterTurnMetadata(turn))
  IN Finish(AfterMessage(ended))

\* C36: for the same registry and the same oracle output the synchronous
\* loop runs the capabilities the streaming loop runs, ends as it ends,
\* builds the same running context and records the same entries in the
\* session's conversation context.
C36_SyncLoopMatchesStreamLoop ==
  (mode = "sync" /\ frame.pc = "done" /\ SelectsEnd(stub))
  => \E o \in AgentCall(start_agent_name, stub.msg) :
        LET g == StreamSingleTurn(o)
        IN /\ frame.runs = g.runs
           /\ frame.oracle_calls = g.oracle_calls
           /\ frame.outcome = "returned"
           /\ frame.context = g.context
           /\ frame.saved = g.saved

\* C37: for every session a pause snapshot is stored exactly while the
\* loop that ended most recently on the session ended PAUSED; a loop that
\* ends DONE or FAILED leaves no snapshot, so no resume request is accepted
\* for a session that is not paused.
C37_SnapshotStoredIffPaused ==
  \A s \in Sessions :
     server.rows[s].paused_context # None <=> server.rows[s].last = "paused"

\* C38: an attempt that fails with an exception leaves the running context
\* and the agent history as they were before the attempt.
C38_FailedAttemptLeavesContextAndHistory ==
  (Running /\ frame.pc \in {"after_error", "after_fatal"})
  => /\ frame.context = frame.attempt_context
     /\ frame.thinking_steps = frame.attempt_steps

\* C39: after construction of a composite capability every configured
\* provider is counted exactly once: the connected providers and the failed
\* list are disjoint, the failed list has no duplicates, together they are
\* the configured providers, and total_servers is their number.
C39_EveryProviderCountedOnce ==
  multi.pc \in {"ready", "inactive"} =>
    LET connected == {p[1] : p \in multi.mcp_clients}
        failed == multi.failed_servers
    IN /\ \A i \in 1..Len(failed) : failed[i] \notin connected
       /\ \A i, j \in 1..Len(failed) : failed[i] = failed[j] => i = j
       /\ connected \cup {failed[i] : i \in 1..Len(failed)}
            = {multi.configs[i].name : i \in 1..Len(multi.configs)}
       /\ get_status(multi).total_servers = Len(multi.configs)

\* the same for configurations in which every provider has a name of its own
C39_EveryNamedProviderCountedOnce ==
  (\A i, j \in 1..Len(multi.configs) :
      multi.configs[i].name = multi.configs[j].name => i = j)
  => C39_EveryProviderCountedOnce

====
